---- MODULE Spec2Model ----
(***************************************************************************)
(* Model of the health aggregation engine of rpc_monitor.js: the primary   *)
(* and the external registry, the JSON-RPC call client and its diagnostic  *)
(* wrappers, the block-height snapshot (getAllBlockNumbers), the           *)
(* per-endpoint battery (testRpcEndpoint), the external probes             *)
(* (testExternalRpc, testWebSocket), the routes built on them and the      *)
(* resolution of the two registries from the environment at the start.     *)
(***************************************************************************)
EXTENDS Integers, Sequences, FiniteSets, TLC

(***************************************************************************)
(* Bounds.                                                                 *)
(***************************************************************************)
\* block heights an endpoint may report are 0 .. MaxBlock
MaxBlock == 1

(***************************************************************************)
(* Values.                                                                 *)
(***************************************************************************)
\* JavaScript null / an absent optional object is the empty sequence, a
\* present one is the one-element sequence holding it.
Null == <<>>
Some(x) == <<x>>

\* The not-a-number value parseInt returns when no digit can be read: an
\* integer below every height, difference and score of the model.
NaN == -1000000

\* absent compare_with / system_monitor_url of a descriptor
NoKey == "null"

\* JavaScript arithmetic and comparisons on numbers that may be NaN.
JsSub(a, b) == IF a = NaN \/ b = NaN THEN NaN ELSE a - b
JsGt(a, b) == a # NaN /\ b # NaN /\ a > b
JsLt(a, b) == a # NaN /\ b # NaN /\ a < b
JsStrictEq(a, b) == a # NaN /\ b # NaN /\ a = b

(***************************************************************************)
(* The result field of a JSON-RPC response.  A string "0x..." is the       *)
(* sequence of its characters after the prefix, each a hex digit 0..15 or  *)
(* NonHex for any other character.                                         *)
(***************************************************************************)
NonHex == 16

StrResult(d) == [t |-> "string", d |-> d]
NullResult == [t |-> "null", d |-> <<>>]
FalseResult == [t |-> "false", d |-> <<>>]
ObjectResult == [t |-> "object", d |-> <<>>]
\* an object whose own toString property is not callable, e.g. {"toString":1}
UnprintableResult == [t |-> "unprintable", d |-> <<>>]

RECURSIVE HexPrefixValue(_, _)
\* value of the longest prefix of hex digits of d, acc the digits read so far
HexPrefixValue(d, acc) ==
  IF d = <<>> \/ Head(d) = NonHex THEN acc
  ELSE HexPrefixValue(Tail(d), acc * 16 + Head(d))

\* parseInt(v, 16) for a value that converts to a string
parseInt16(v) ==
  IF v.t = "string" /\ v.d # <<>> /\ Head(v.d) # NonHex
  THEN HexPrefixValue(v.d, 0)
  ELSE NaN

\* parseInt(v, 16) throws a TypeError when v cannot be converted to a string
parseIntThrows(v) == v.t = "unprintable"

RECURSIVE ToHexDigits(_)
ToHexDigits(n) == IF n < 16 THEN <<n>> ELSE Append(ToHexDigits(n \div 16), n % 16)

(***************************************************************************)
(* Endpoint registry.  The environment is a sequence of configuration      *)
(* slots RPC_{i}_*; an unset variable is the empty string (TIMEOUT: 0).    *)
(***************************************************************************)
Unset == ""

Slot(name, url, compareWith, systemUrl, key, isReference) ==
  [NAME |-> name, URL |-> url, CHAIN_ID |-> Unset, TIMEOUT |-> 0,
   COMPARE_WITH |-> compareWith, SYSTEM_URL |-> systemUrl, KEY |-> key,
   IS_REFERENCE |-> isReference, DISPLAY_URL |-> Unset]

\* `rpc_${i}`
DefaultKey(i) ==
  CASE i = 1 -> "rpc_1" [] i = 2 -> "rpc_2" [] i = 3 -> "rpc_3" [] OTHER -> "rpc_4"

DefaultTimeout == 10000
DefaultChainId == "998"

\* a value of RPC_{i}_TIMEOUT other than the default
ConfiguredTimeout == 5000
WithTimeout(slot, ms) == [slot EXCEPT !.TIMEOUT = ms]

\* a value of RPC_{i}_CHAIN_ID other than the default
ConfiguredChainId == "1"
WithChainId(slot, id) == [slot EXCEPT !.CHAIN_ID = id]

\* a value of RPC_{i}_DISPLAY_URL, the URL to show in place of the actual one
WithDisplayUrl(slot, url) == [slot EXCEPT !.DISPLAY_URL = url]

\* the descriptor getRpcEndpoints stores for slot i (with its identity key);
\* RPC_{i}_DISPLAY_URL is not among the variables the function reads
Descriptor(slot, i) ==
  [key |-> IF slot.KEY # Unset THEN slot.KEY ELSE DefaultKey(i),
   name |-> slot.NAME,
   url |-> slot.URL,
   expected_chain_id |-> IF slot.CHAIN_ID # Unset THEN slot.CHAIN_ID ELSE DefaultChainId,
   timeout |-> IF slot.TIMEOUT # 0 THEN slot.TIMEOUT ELSE DefaultTimeout,
   compare_with |-> IF slot.COMPARE_WITH # Unset THEN slot.COMPARE_WITH ELSE NoKey,
   system_monitor_url |-> IF slot.SYSTEM_URL # Unset THEN slot.SYSTEM_URL ELSE NoKey,
   is_reference |-> slot.IS_REFERENCE = "true"]

\* endpoints[key] = value on an object kept as the sequence of its entries in
\* insertion order: an existing key keeps its position and takes the value
SetEntry(entries, e) ==
  IF \E j \in 1..Len(entries) : entries[j].key = e.key
  THEN [j \in 1..Len(entries) |-> IF entries[j].key = e.key THEN e ELSE entries[j]]
  ELSE Append(entries, e)

RECURSIVE getRpcEndpointsFromNamed(_, _, _)
\* a slot taken for complete as soon as it has a name
getRpcEndpointsFromNamed(env, i, endpoints) ==
  IF i > Len(env) THEN endpoints
  ELSE getRpcEndpointsFromNamed(env, i + 1,
         IF env[i].NAME # Unset
         THEN SetEntry(endpoints, Descriptor(env[i], i))
         ELSE endpoints)

RECURSIVE getRpcEndpointsFrom(_, _, _)
getRpcEndpointsFrom(env, i, endpoints) ==
  IF i > Len(env) THEN endpoints
  ELSE getRpcEndpointsFrom(env, i + 1,
         IF env[i].NAME # Unset /\ env[i].URL # Unset
         THEN SetEntry(endpoints, Descriptor(env[i], i))
         ELSE endpoints)

getRpcEndpoints(env) == getRpcEndpointsFrom(env, 1, <<>>)

\* Object.keys(obj) as a set, and obj[key] for an own key
Keys(entries) == {entries[j].key : j \in 1..Len(entries)}
Entry(entries, k) == entries[CHOOSE j \in 1..Len(entries) : entries[j].key = k]

\* The registry and the snapshot are plain objects ({}): a property read
\* obj[key] that finds no own property finds the properties every object
\* inherits from Object.prototype, here the function Object under
\* "constructor".
ObjectPrototypeKeys == {"constructor"}

\* a property that is not there reads as undefined
Undefined == "undefined"

\* RPC_ENDPOINTS["constructor"] read as an endpoint: its name is the
\* function's name, every descriptor field is undefined
InheritedEndpoint(k) ==
  [key |-> k, name |-> "Object", url |-> Undefined, expected_chain_id |-> Undefined,
   timeout |-> 0, compare_with |-> NoKey, system_monitor_url |-> NoKey,
   is_reference |-> FALSE]

\* blockNumbers["constructor"] read as a test outcome: success is undefined
InheritedOutcome == [success |-> FALSE, inherited |-> TRUE]

\* A reference node with a display URL and a node compared with it that has
\* a resource sidecar.
EnvReference ==
  << WithDisplayUrl(Slot("Reference", "http://ref", Unset, Unset, Unset, "true"),
                    "http://ref.shown"),
     Slot("Node", "http://node", "rpc_1", "http://node/system", Unset, Unset) >>

\* A node compared with a key no slot defines, an incomplete slot, and a node
\* compared with itself that has its own request timeout and expected chain
\* id.
EnvDangling ==
  << Slot("Alone", "http://alone", "rpc_9", Unset, Unset, Unset),
     Slot("NoUrl", Unset, Unset, Unset, Unset, Unset),
     WithChainId(WithTimeout(Slot("Self", "http://self", "rpc_3", Unset, Unset, Unset),
                             ConfiguredTimeout),
                 ConfiguredChainId) >>

\* no slot has both a name and a URL
EnvUnconfigured == << Slot("NoUrl", Unset, Unset, Unset, Unset, Unset) >>

Environments == {EnvReference, EnvDangling, EnvUnconfigured}

(***************************************************************************)
(* External registry.  A URL is the sequence of the pieces of its text, a  *)
(* scheme prefix such as "http://" being one piece; the empty sequence is  *)
(* the empty (unset) string.                                               *)
(***************************************************************************)
\* the built-in list getExternalRpcEndpoints returns when no external slot
\* is configured
DefaultExternalRpcEndpoints ==
  << [name |-> "Proxy RPC 1",
      rpcUrl |-> <<"http://", "18.142.83.122:9090">>,
      wsUrl |-> <<"ws://", "18.142.83.122:9091">>,
      description |-> "Internal proxy RPC endpoint",
      showInUI |-> TRUE,
      displayRpcUrl |-> <<"http://", "18.142.83.122:9090">>,
      displayWsUrl |-> <<"ws://", "18.142.83.122:9091">>],
     [name |-> "HyperLiquid Testnet",
      rpcUrl |-> <<"https://", "rpc.hyperliquid-testnet.xyz/evm">>,
      wsUrl |-> <<"wss://", "rpc.hyperliquid-testnet.xyz/evm">>,
      description |-> "Official HyperLiquid testnet RPC",
      showInUI |-> TRUE,
      displayRpcUrl |-> <<"https://", "rpc.hyperliquid-testnet.xyz/evm">>,
      displayWsUrl |-> <<"wss://", "rpc.hyperliquid-testnet.xyz/evm">>] >>

ExternalSlot(name, url, wsUrl, desc, apiKey, showInUI) ==
  [NAME |-> name, URL |-> url, WS_URL |-> wsUrl, DESC |-> desc, API_KEY |-> apiKey,
   SHOW_IN_UI |-> showInUI]

\* str.replace(from, to): the first occurrence of the piece is replaced
Replace(str, from, to) ==
  IF \E j \in 1..Len(str) : str[j] = from
  THEN LET first == CHOOSE j \in 1..Len(str) :
                      str[j] = from /\ \A i \in 1..(j - 1) : str[i] # from
       IN [j \in 1..Len(str) |-> IF j = first THEN to ELSE str[j]]
  ELSE str

\* wsUrl || rpcUrl.replace('http://', 'ws://').replace('https://', 'wss://')
DerivedWsUrl(slot) ==
  IF slot.WS_URL # <<>> THEN slot.WS_URL
  ELSE Replace(Replace(slot.URL, "http://", "ws://"), "https://", "wss://")

\* `${url}/${apiKey}` when an API key is configured
WithApiKey(url, apiKey) == IF apiKey # Unset THEN url \o <<"/", apiKey>> ELSE url

\* the descriptor getExternalRpcEndpoints pushes for slot i
ExternalDescriptor(slot, i) ==
  [name |-> slot.NAME,
   rpcUrl |-> WithApiKey(slot.URL, slot.API_KEY),
   wsUrl |-> WithApiKey(DerivedWsUrl(slot), slot.API_KEY),
   description |-> IF slot.DESC # Unset THEN slot.DESC
                   ELSE <<"External RPC endpoint ", i>>,
   showInUI |-> slot.SHOW_IN_UI # "false",
   displayRpcUrl |-> slot.URL,
   displayWsUrl |-> DerivedWsUrl(slot)]

RECURSIVE getExternalRpcEndpointsFrom(_, _, _)
getExternalRpcEndpointsFrom(env, i, endpoints) ==
  IF i > Len(env) THEN endpoints
  ELSE getExternalRpcEndpointsFrom(env, i + 1,
         IF env[i].NAME # Unset /\ env[i].URL # <<>>
         THEN Append(endpoints, ExternalDescriptor(env[i], i))
         ELSE endpoints)

\* the resolved slots returned as they are, without the built-in list
getExternalRpcEndpointsAsResolved(env) == getExternalRpcEndpointsFrom(env, 1, <<>>)

getExternalRpcEndpoints(env) ==
  LET endpoints == getExternalRpcEndpointsFrom(env, 1, <<>>) IN
  IF Len(endpoints) = 0 THEN DefaultExternalRpcEndpoints ELSE endpoints

\* nothing configured
EnvNoExternal == <<>>

\* An endpoint whose WebSocket URL is configured without a scheme, and a
\* hidden endpoint with an API key whose WebSocket URL is derived.
EnvExternal ==
  << ExternalSlot("Bare", <<"http://", "bare.example">>, <<"bare.example:9091">>,
                  Unset, Unset, Unset),
     ExternalSlot("Keyed", <<"https://", "keyed.example">>, <<>>, "Keyed node",
                  "secret", "false") >>

ExternalEnvironments == {EnvNoExternal, EnvExternal}

(***************************************************************************)
(* The variables the earlier version of the monitor took its three         *)
(* endpoints from.                                                         *)
(***************************************************************************)
LegacyVariables(main, localNode, archive) ==
  [HYPERLIQUID_MAIN_URL |-> main, LOCAL_NODE_URL |-> localNode,
   ARCHIVE_NODE_URL |-> archive]

NoLegacy == LegacyVariables(Unset, Unset, Unset)
LegacySet == LegacyVariables("http://main", "http://local", "http://archive")

\* process.env.X || fallback
OrElse(value, fallback) == IF value # Unset THEN value ELSE fallback

\* the registry of the earlier version: three endpoints under fixed keys,
\* the first the reference the two others are compared with
LegacyRpcEndpoints(legacy) ==
  << [key |-> "hyperliquid_main", name |-> "Hyperliquid Testnet",
      url |-> OrElse(legacy.HYPERLIQUID_MAIN_URL, "https://rpc.hyperliquid-testnet.xyz/evm"),
      expected_chain_id |-> "998", timeout |-> 10000, compare_with |-> NoKey,
      system_monitor_url |-> NoKey, is_reference |-> TRUE],
     [key |-> "local_node", name |-> "Local HL Node",
      url |-> OrElse(legacy.LOCAL_NODE_URL, "http://localhost:3001/evm"),
      expected_chain_id |-> "998", timeout |-> 5000, compare_with |-> "hyperliquid_main",
      system_monitor_url |-> NoKey, is_reference |-> FALSE],
     [key |-> "archive_node", name |-> "Archive Node",
      url |-> OrElse(legacy.ARCHIVE_NODE_URL, "http://localhost:8547"),
      expected_chain_id |-> "998", timeout |-> 10000, compare_with |-> "hyperliquid_main",
      system_monitor_url |-> NoKey, is_reference |-> FALSE] >>

(***************************************************************************)
(* RPC call client.  A reply is what axios.post produces: http = "error"   *)
(* when it throws (network error, timeout, HTTP error status), otherwise   *)
(* the parsed body, with or without a result field.                        *)
(***************************************************************************)
ErrorReply == [http |-> "error", hasResult |-> FALSE, result |-> NullResult]
NoResultReply == [http |-> "ok", hasResult |-> FALSE, result |-> NullResult]
ResultReply(v) == [http |-> "ok", hasResult |-> TRUE, result |-> v]

makeRpcCall(reply) ==
  IF reply.http = "error" THEN [success |-> FALSE, error |-> "error.message"]
  ELSE IF reply.hasResult THEN [success |-> TRUE, result |-> reply.result]
  ELSE [success |-> FALSE, error |-> "Invalid response format"]

\* the default of makeRpcCall's timeout parameter
MakeRpcCallTimeout == 10000

\* the timeout in force for the calls made for an endpoint: the wrappers are
\* given the endpoint's url and name and call makeRpcCall(rpcUrl, method),
\* so the parameter takes its default
CallTimeout(endpoint) == MakeRpcCallTimeout

\* A wrapper's promise either fulfils with a TestOutcome or rejects.
Fulfilled(v) == [status |-> "fulfilled", value |-> v]
Rejected == [status |-> "rejected", value |-> [success |-> FALSE, error |-> "TypeError"]]

getBlockNumber(reply) ==
  LET result == makeRpcCall(reply) IN
  IF result.success
  THEN IF parseIntThrows(result.result) THEN Rejected
       ELSE Fulfilled([success |-> TRUE, block |-> parseInt16(result.result),
                       hex |-> result.result])
  ELSE Fulfilled([success |-> FALSE, error |-> result.error])

getChainId(reply) ==
  LET result == makeRpcCall(reply) IN
  IF result.success
  THEN IF parseIntThrows(result.result) THEN Rejected
       ELSE Fulfilled([success |-> TRUE, chainId |-> parseInt16(result.result),
                       hex |-> result.result])
  ELSE Fulfilled([success |-> FALSE, error |-> result.error])

getGasPrice(reply) ==
  LET result == makeRpcCall(reply) IN
  IF result.success
  THEN IF parseIntThrows(result.result) THEN Rejected
       ELSE Fulfilled([success |-> TRUE, gasPrice |-> parseInt16(result.result),
                       hex |-> result.result])
  ELSE Fulfilled([success |-> FALSE, error |-> result.error])

getSyncStatus(reply) ==
  LET result == makeRpcCall(reply) IN
  IF result.success
  THEN IF result.result.t = "false"
       THEN Fulfilled([success |-> TRUE, syncing |-> FALSE, data |-> NullResult])
       ELSE Fulfilled([success |-> TRUE, syncing |-> TRUE, data |-> result.result])
  ELSE Fulfilled([success |-> FALSE, error |-> result.error])

\* getNodeSystemResources: reply.hasResult stands for response.data.success
getNodeSystemResources(reply) ==
  IF reply.http = "ok" /\ reply.hasResult
  THEN Fulfilled(Some([ram |-> "ram", disk |-> "disk", cpu |-> "cpu"]))
  ELSE Fulfilled(Null)

(***************************************************************************)
(* Replies the monitored nodes may give to each call.                      *)
(***************************************************************************)
BlockReplies ==
  {ErrorReply, NoResultReply, ResultReply(StrResult(<<>>)), ResultReply(UnprintableResult)}
    \cup {ResultReply(StrResult(ToHexDigits(n))) : n \in 0..MaxBlock}
ChainReplies == {ErrorReply, ResultReply(StrResult(<<3, 14, 6>>)), ResultReply(UnprintableResult)}
GasReplies == {ErrorReply, ResultReply(StrResult(<<1>>)), ResultReply(UnprintableResult)}
SyncReplies == {ErrorReply, ResultReply(FalseResult)}

\* "healthy" in /api/external/status: within this many blocks
HealthyThreshold == 5

\* heights of the external endpoints: near the reference, or one past the
\* threshold above height 0
ExternalReplies ==
  {ErrorReply, NoResultReply, ResultReply(NullResult), ResultReply(StrResult(<<>>)),
   ResultReply(UnprintableResult)}
    \cup {ResultReply(StrResult(ToHexDigits(n))) : n \in (0..MaxBlock) \cup {HealthyThreshold + 1}}
\* the sidecar: no answer, a payload without success, a payload with it
SystemReplies == {ErrorReply, NoResultReply, ResultReply(ObjectResult)}

(***************************************************************************)
(* State.                                                                  *)
(***************************************************************************)
VARIABLES
  environment,     \* process.env: the primary slots, the external slots and the
                   \* variables the earlier version of the monitor was configured by
  RPC_ENDPOINTS,   \* the primary registry, entries in insertion order
  EXTERNAL_RPC_ENDPOINTS, \* the external registry, in order
  route,           \* the request being served, "idle" when none
  stage,           \* position of its handler
  blockPromises,   \* getAllBlockNumbers: key -> Null while in flight, Some(settled promise)
  blockNumbers,    \* the snapshot handed to testRpcEndpoint: key -> TestOutcome
  battery,         \* key -> state of the testRpcEndpoint invocation started for it
  blockCalls,      \* key -> number of eth_blockNumber calls issued for the request
  response,        \* Null, or Some(response sent)
  external,        \* /api/external/status: referenceBlock, the results so far and
                   \* the replies of the external endpoints behind them
  misbehaving,     \* the endpoint whose replies differ between two compared cycles
  script,          \* key -> call -> the reply the endpoint gives in both cycles
  baseline,        \* Null, or Some(key -> what the first of two compared cycles reported)
  endpointKey,     \* req.params.endpointKey of the request, NoKey when it has none
  replies,         \* key -> call -> the reply behind the outcome the request holds
  probes,          \* /api/external-rpcs/status: per external endpoint, the promises of
                   \* its two probes, the reply to the RPC probe, the event that
                   \* resolved the WebSocket probe and what its handler did to the
                   \* connection
  concurrent,      \* a second request, GET /api/:endpointKey, served while the
                   \* first is in flight: its parameter, its testRpcEndpoint
                   \* invocation, the replies to its calls and its response
  path             \* req.path of the request being served, by segments

registry == <<environment, RPC_ENDPOINTS, EXTERNAL_RPC_ENDPOINTS>>
compared == <<misbehaving, script, baseline>>

vars == <<environment, RPC_ENDPOINTS, EXTERNAL_RPC_ENDPOINTS, route, stage, blockPromises,
          blockNumbers, battery, blockCalls, response, external, misbehaving,
          script, baseline, endpointKey, replies, probes, concurrent, path>>

\* the empty object {}
EmptyObject == <<>>

\* no second request
NoConcurrent == [key |-> NoKey, battery |-> Null, replies |-> EmptyObject, response |-> Null]

\* no request is being served
NoPath == <<>>

\* the path /api/<segment>
ApiPath(segment) == <<"api", segment>>

\* the routes of one segment below /api registered by app.get before
\* app.get('/api/:endpointKey'): a request is handed to the first registered
\* route its path matches
RoutesBeforeEndpointKey == {"status", "endpoints", "external-rpcs"}

\* the routes among them whose handlers answer at once with a list
ListRoutes == {"endpoints", "external-rpcs"}

EndpointKeys == Keys(RPC_ENDPOINTS)

\* RPC_ENDPOINTS[k] for a k for which it is truthy
Endpoint(k) == IF k \in EndpointKeys THEN Entry(RPC_ENDPOINTS, k) ELSE InheritedEndpoint(k)

\* RPC_ENDPOINTS[k] is truthy
Registered(k) == k \in EndpointKeys \/ k \in ObjectPrototypeKeys

\* obj[key] is truthy: the key is an own property holding an object, or an
\* inherited one
Truthy(obj, k) == k \in DOMAIN obj \/ k \in ObjectPrototypeKeys

\* obj[key] for a key for which it is truthy
Get(obj, k) == IF k \in DOMAIN obj THEN obj[k] ELSE InheritedOutcome

\* Promise.all over the promises ps (key -> Null | Some(promise)): fulfils
\* once every promise is fulfilled, rejects as soon as one is rejected
PromiseAllFulfilled(ps) ==
  \A k \in DOMAIN ps : ps[k] # Null /\ ps[k][1].status = "fulfilled"
PromiseAllRejected(ps) ==
  \E k \in DOMAIN ps : ps[k] # Null /\ ps[k][1].status = "rejected"

(***************************************************************************)
(* testRpcEndpoint.                                                        *)
(***************************************************************************)
\* the concurrent calls of rpcTests
RpcTests(endpoint) ==
  {"chainId", "gasPrice", "syncStatus"}
    \cup (IF endpoint.system_monitor_url # NoKey THEN {"system"} ELSE {})

NewResults(endpoint) ==
  [name |-> endpoint.name, url |-> endpoint.url, tests |-> EmptyObject,
   blockDifference |-> Null, system |-> Null, health |-> Null]

\* the resource query left out of the calls issued together
IssueRpcTestsWithoutSystem(endpoint, results, blockResult) ==
  [pc |-> "tests",
   results |-> [results EXCEPT !.tests = ("blockNumber" :> blockResult)],
   promises |-> [c \in {"chainId", "gasPrice", "syncStatus"} |-> Null]]

\* results.tests.blockNumber is set: build rpcTests and await Promise.all
IssueRpcTests(endpoint, results, blockResult) ==
  [pc |-> "tests",
   results |-> [results EXCEPT !.tests = ("blockNumber" :> blockResult)],
   promises |-> [c \in RpcTests(endpoint) |-> Null]]

\* testRpcEndpoint up to its first await
testRpcEndpointStart(endpoint, blockNums) ==
  IF Truthy(blockNums, endpoint.key)
  THEN IssueRpcTests(endpoint, NewResults(endpoint), Get(blockNums, endpoint.key))
  ELSE [pc |-> "block", results |-> NewResults(endpoint), promises |-> EmptyObject]

\* the condition guarding the block difference computation
ShouldCompare(endpoint, blockNums, tests) ==
  /\ DOMAIN blockNums # {}
  /\ endpoint.compare_with # NoKey
  /\ Truthy(blockNums, endpoint.compare_with)
  /\ Get(blockNums, endpoint.compare_with).success
  /\ tests["blockNumber"].success

\* difference taken the wrong way round
BlockDifferenceSwapped(referenceBlock, currentBlock) ==
  LET difference == JsSub(currentBlock, referenceBlock) IN
  [referenceBlock |-> referenceBlock,
   currentBlock |-> currentBlock,
   difference |-> difference,
   isBehind |-> JsGt(difference, 0),
   isAhead |-> JsLt(difference, 0),
   isSynced |-> JsStrictEq(difference, 0)]

BlockDifference(referenceBlock, currentBlock) ==
  LET difference == JsSub(referenceBlock, currentBlock) IN
  [referenceBlock |-> referenceBlock,
   currentBlock |-> currentBlock,
   difference |-> difference,
   isBehind |-> JsGt(difference, 0),
   isAhead |-> JsLt(difference, 0),
   isSynced |-> JsStrictEq(difference, 0)]

\* every test counted, the success filter forgotten
\* a zero difference reported when no comparison can be made
ComputeBlockDifferencePlaceholder(endpoint, blockNums, tests) ==
  IF ShouldCompare(endpoint, blockNums, tests)
  THEN Some(BlockDifference(blockNums[endpoint.compare_with].block,
                            tests["blockNumber"].block))
  ELSE Some(BlockDifference(0, 0))

\* results.blockDifference: set only when the condition holds
ComputeBlockDifference(endpoint, blockNums, tests) ==
  IF ShouldCompare(endpoint, blockNums, tests)
  THEN Some(BlockDifference(blockNums[endpoint.compare_with].block,
                            tests["blockNumber"].block))
  ELSE Null

SuccessfulTestsUnfiltered(tests) == Cardinality(DOMAIN tests)

SuccessfulTests(tests) == Cardinality({t \in DOMAIN tests : tests[t].success})
TotalTests(tests) == Cardinality(DOMAIN tests)

\* (successfulTests / totalTests) * 100; 0/0 is NaN.  The quotient is kept
\* as the integer percentage, which it is for every count out of four.
Score(successfulTests, totalTests) ==
  IF totalTests = 0 THEN NaN ELSE (successfulTests * 100) \div totalTests

Health(tests) ==
  [score |-> Score(SuccessfulTests(tests), TotalTests(tests)),
   successfulTests |-> SuccessfulTests(tests),
   totalTests |-> TotalTests(tests)]

\* the resource query stored among the tests, as a fifth test
testRpcEndpointFinishCountingSystem(endpoint, b, blockNums) ==
  LET system == IF endpoint.system_monitor_url # NoKey
                THEN b.promises["system"][1].value ELSE Null
      tests == [t \in {"blockNumber", "chainId", "gasPrice", "syncStatus"}
                      \cup (IF endpoint.system_monitor_url # NoKey THEN {"system"} ELSE {}) |->
                  IF t = "blockNumber" THEN b.results.tests["blockNumber"]
                  ELSE IF t = "system" THEN [success |-> system # Null]
                       ELSE b.promises[t][1].value]
      diff == ComputeBlockDifference(endpoint, blockNums, tests)
  IN [pc |-> "done",
      results |-> [b.results EXCEPT !.tests = tests, !.system = system,
                                    !.blockDifference = diff,
                                    !.health = Some(Health(tests))],
      promises |-> b.promises]

\* testRpcEndpoint after Promise.all(rpcTests) has fulfilled
testRpcEndpointFinish(endpoint, b, blockNums) ==
  LET tests == [t \in {"blockNumber", "chainId", "gasPrice", "syncStatus"} |->
                  IF t = "blockNumber" THEN b.results.tests["blockNumber"]
                  ELSE b.promises[t][1].value]
      system == IF endpoint.system_monitor_url # NoKey
                THEN b.promises["system"][1].value ELSE Null
      diff == ComputeBlockDifference(endpoint, blockNums, tests)
  IN [pc |-> "done",
      results |-> [b.results EXCEPT !.tests = tests, !.system = system,
                                    !.blockDifference = diff,
                                    !.health = Some(Health(tests))],
      promises |-> b.promises]

(***************************************************************************)
(* Responses.                                                              *)
(***************************************************************************)
Healthy(results) == results.health[1].score >= 80
\* the lower threshold taken as exclusive
PartiallyHealthyExclusive(results) ==
  results.health[1].score > 50 /\ results.health[1].score < 80

PartiallyHealthy(results) == results.health[1].score >= 50 /\ results.health[1].score < 80

\* the upper threshold of unhealthy taken as inclusive
UnhealthyInclusive(results) == results.health[1].score <= 50

Unhealthy(results) == results.health[1].score < 50

Summary(results) ==
  LET total == Cardinality(DOMAIN results)
      healthy == Cardinality({k \in DOMAIN results : Healthy(results[k])})
  IN [total |-> total,
      healthy |-> healthy,
      partiallyHealthy |-> Cardinality({k \in DOMAIN results : PartiallyHealthy(results[k])}),
      unhealthy |-> Cardinality({k \in DOMAIN results : Unhealthy(results[k])}),
      \* (healthy / total) * 100 as the fraction <<numerator, denominator>>
      overallHealth |-> <<healthy * 100, total>>]

StatusResponse(results) ==
  [status |-> 200, endpoints |-> results, summary |-> Summary(results)]

ResultResponse(results) == [status |-> 200, result |-> results]

ErrorResponse(code, error) == [status |-> code, error |-> error]

(***************************************************************************)
(* Steps of a running testRpcEndpoint invocation (shared by the routes).   *)
(* A continuation after an await runs in the same turn of the event loop   *)
(* as the event that settles the awaited promise, so it is part of the     *)
(* action of that event.                                                   *)
(***************************************************************************)
Wrapper(c, reply) ==
  CASE c = "chainId" -> getChainId(reply)
    [] c = "gasPrice" -> getGasPrice(reply)
    [] c = "syncStatus" -> getSyncStatus(reply)
    [] OTHER -> getNodeSystemResources(reply)

Replies(c) ==
  CASE c = "blockNumber" -> BlockReplies
    [] c = "chainId" -> ChainReplies
    [] c = "gasPrice" -> GasReplies
    [] c = "syncStatus" -> SyncReplies
    [] OTHER -> SystemReplies

\* the invocation's promise rejected; nothing of it is used afterwards
RejectedBattery(endpoint) ==
  [pc |-> "rejected", results |-> NewResults(endpoint), promises |-> EmptyObject]

\* the awaited getBlockNumber of an invocation without a pre-fetched height
BatteryBlockSettled(k, reply) ==
  LET p == getBlockNumber(reply) IN
  IF p.status = "rejected" THEN RejectedBattery(Endpoint(k))
  ELSE IssueRpcTests(Endpoint(k), battery[k].results, p.value)

\* a failed call cancelling the calls of the invocation still in flight
BatteryTestSettledCancelling(k, c, reply) ==
  LET p == Wrapper(c, reply)
      failed == c # "system" /\ p.status = "fulfilled" /\ ~p.value.success
      cancelled(j) == IF j = "system" THEN Fulfilled(Null)
                      ELSE Fulfilled([success |-> FALSE, error |-> "canceled"])
      b == [battery[k] EXCEPT !.promises =
              [j \in DOMAIN battery[k].promises |->
                 IF j = c THEN Some(p)
                 ELSE IF failed /\ battery[k].promises[j] = Null THEN Some(cancelled(j))
                      ELSE battery[k].promises[j]]]
  IN IF p.status = "rejected" THEN RejectedBattery(Endpoint(k))
     ELSE IF PromiseAllFulfilled(b.promises)
          THEN testRpcEndpointFinish(Endpoint(k), b, blockNumbers)
          ELSE b

\* the health score recomputed as each call of the invocation completes
BatteryTestSettledScoring(k, c, reply) ==
  LET p == Wrapper(c, reply)
      b == [battery[k] EXCEPT !.promises[c] = Some(p)]
      settled == {"blockNumber"}
                   \cup {t \in DOMAIN b.promises \ {"system"} : b.promises[t] # Null}
      sofar == [t \in settled |->
                  IF t = "blockNumber" THEN b.results.tests["blockNumber"]
                  ELSE b.promises[t][1].value]
  IN IF p.status = "rejected" THEN RejectedBattery(Endpoint(k))
     ELSE IF PromiseAllFulfilled(b.promises)
          THEN testRpcEndpointFinish(Endpoint(k), b, blockNumbers)
          ELSE [b EXCEPT !.results.health = Some(Health(sofar))]

\* one of the concurrent calls of rpcTests settles; a rejection rejects
\* Promise.all and with it the invocation; the last fulfilment resumes it
BatteryTestSettled(k, c, reply) ==
  LET p == Wrapper(c, reply)
      b == [battery[k] EXCEPT !.promises[c] = Some(p)]
  IN IF p.status = "rejected" THEN RejectedBattery(Endpoint(k))
     ELSE IF PromiseAllFulfilled(b.promises)
          THEN testRpcEndpointFinish(Endpoint(k), b, blockNumbers)
          ELSE b

\* The handler awaiting the invocations bs resumes when Promise.all settles:
\* /api/status answers with all results, or 500 from its catch block;
\* /api/:endpointKey answers with the one result, or 500.
Answer(bs) ==
  IF \E k \in DOMAIN bs : bs[k].pc = "rejected"
  THEN Some(ErrorResponse(500, "error.message"))
  ELSE IF \A k \in DOMAIN bs : bs[k].pc = "done"
       THEN IF route = "status"
            THEN Some(StatusResponse([k \in DOMAIN bs |-> bs[k].results]))
            ELSE Some(ResultResponse(bs[CHOOSE k \in DOMAIN bs : TRUE].results))
       ELSE Null

Running ==
  \/ route \in {"status", "test", "endpointKey"} /\ stage = "batteries"
  \/ route = "externalStatus" /\ stage = "reference"

\* a number in a JSON body: NaN is serialised as null
JsonNumber(x) == IF x = NaN THEN Null ELSE Some(x)

\* a reference whose block-height test failed taken to be at height 0
ReferenceBlockOrZero(inner) ==
  IF inner.status = 200
  THEN IF inner.result.tests["blockNumber"].success
       THEN JsonNumber(inner.result.tests["blockNumber"].block)
       ELSE Some(0)
  ELSE Null

\* /api/external/status resumes with the answer of its GET /api/<reference
\* key>: referenceBlock is read from it, a 500 makes axios throw
ReferenceBlock(inner) ==
  IF inner.status = 200 /\ inner.result.tests["blockNumber"].success
  THEN JsonNumber(inner.result.tests["blockNumber"].block)
  ELSE Null

ReferenceAnswered(inner) ==
  IF inner.status # 200
  THEN /\ response' = Some(ErrorResponse(500, "Reference RPC unavailable"))
       /\ stage' = "responded"
       /\ UNCHANGED external
  ELSE IF ReferenceBlock(inner) = Null
       THEN /\ response' = Some(ErrorResponse(500, "Reference RPC block unavailable"))
            /\ stage' = "responded"
            /\ UNCHANGED external
       ELSE /\ external' = [external EXCEPT !.referenceBlock = ReferenceBlock(inner)]
            /\ stage' = "externals"
            /\ UNCHANGED response

\* the reply to call c of endpoint k is received; a rejected invocation
\* holds no outcome any more
Received(k, c, reply, b) ==
  IF b.pc = "rejected" THEN [j \in DOMAIN replies \ {k} |-> replies[j]]
  ELSE [j \in DOMAIN replies \cup {k} |->
          IF j = k
          THEN (c :> reply) @@ (IF k \in DOMAIN replies THEN replies[k] ELSE EmptyObject)
          ELSE replies[j]]

\* axios.post(undefined, ...) fails before any reply
Answers(k, reply) == Endpoint(k).url = Undefined => reply = ErrorReply

BatteryStep(bs) ==
  /\ battery' = bs
  /\ IF route = "externalStatus"
     THEN IF Answer(bs) = Null
          THEN UNCHANGED <<response, stage, external>>
          ELSE ReferenceAnswered(Answer(bs)[1])
     ELSE /\ response' = Answer(bs)
          /\ stage' = IF Answer(bs) # Null THEN "responded" ELSE stage
          /\ UNCHANGED external
  /\ UNCHANGED <<registry, compared, concurrent, path, route, blockPromises, blockNumbers,
                 blockCalls, endpointKey, probes>>

BlockNumberSettles(k, reply) ==
  /\ Running
  /\ k \in DOMAIN battery
  /\ battery[k].pc = "block"
  /\ Answers(k, reply)
  /\ replies' = Received(k, "blockNumber", reply, BatteryBlockSettled(k, reply))
  /\ BatteryStep([battery EXCEPT ![k] = BatteryBlockSettled(k, reply)])

TestSettles(k, c, reply) ==
  /\ Running
  /\ k \in DOMAIN battery
  /\ battery[k].pc = "tests"
  /\ c \in DOMAIN battery[k].promises
  /\ battery[k].promises[c] = Null
  /\ Answers(k, reply)
  /\ replies' = Received(k, c, reply, BatteryTestSettled(k, c, reply))
  /\ BatteryStep([battery EXCEPT ![k] = BatteryTestSettled(k, c, reply)])

(***************************************************************************)
(* GET /api/status                                                         *)
(***************************************************************************)
\* the handler calls getAllBlockNumbers, which issues one getBlockNumber per
\* registered endpoint and awaits Promise.all.  With an empty registry both
\* Promise.all calls of the handler are given no promise and fulfil without
\* any reply: the snapshot is {}, there is nothing to test and the handler
\* answers.
StatusRequest ==
  /\ route = "idle"
  /\ route' = "status"
  /\ IF EndpointKeys = {}
     THEN /\ stage' = "responded"
          /\ blockPromises' = EmptyObject
          /\ blockCalls' = EmptyObject
          /\ response' = Some(StatusResponse(EmptyObject))
     ELSE /\ stage' = "snapshot"
          /\ blockPromises' = [k \in EndpointKeys |-> Null]
          /\ blockCalls' = [k \in EndpointKeys |-> 1]
          /\ UNCHANGED response
  /\ path' = <<"api", "status">>
  /\ UNCHANGED <<registry, compared, concurrent, external, blockNumbers, battery,
                 endpointKey, replies, probes>>

\* resuming as soon as one call has fulfilled
BlockResultsReadyFirst(ps) ==
  \E k \in DOMAIN ps : ps[k] # Null /\ ps[k][1].status = "fulfilled"

\* await Promise.all(blockPromises) resumes with the results
BlockResultsReady(ps) == PromiseAllFulfilled(ps)

\* each result stored under the key of another endpoint
BlockDataMisplaced(ps) ==
  LET keys == {j \in DOMAIN ps : ps[j] # Null} IN
  [k \in keys |-> ps[CHOOSE j \in keys : j # k \/ keys = {k}][1].value]

\* blockData of getAllBlockNumbers: the results by key
BlockData(ps) == [k \in {j \in DOMAIN ps : ps[j] # Null} |-> ps[k][1].value]

\* the endpoints the handler tests: /api/status every registered one,
\* /api/test/:endpointKey the one it was asked for
Tested == IF route = "status" THEN EndpointKeys ELSE {endpointKey}

\* the handler resumes with the snapshot blockData and starts
\* testRpcEndpoint for the endpoints it tests
StartBatteries(blockData) ==
  /\ blockNumbers' = blockData
  /\ battery' = [k \in Tested |-> testRpcEndpointStart(Endpoint(k), blockData)]
  /\ blockCalls' = [k \in EndpointKeys \cup Tested |->
                      (IF k \in EndpointKeys THEN blockCalls[k] ELSE 0)
                        + (IF k \in Tested /\ ~Truthy(blockData, k) THEN 1 ELSE 0)]
  /\ stage' = "batteries"

\* a getBlockNumber of the snapshot settles.  When Promise.all rejects,
\* the catch block of getAllBlockNumbers returns {} and the results of the
\* batch are dropped; when it fulfils, blockData is returned.
BlockPromiseSettles(k, reply) ==
  /\ route \in {"status", "test"}
  /\ stage = "snapshot"
  /\ k \in DOMAIN blockPromises
  /\ blockPromises[k] = Null
  /\ LET ps == [blockPromises EXCEPT ![k] = Some(getBlockNumber(reply))] IN
       IF PromiseAllRejected(ps)
       THEN /\ blockPromises' = EmptyObject
            /\ replies' = EmptyObject
            /\ StartBatteries(EmptyObject)
       ELSE /\ blockPromises' = ps
            /\ replies' = Received(k, "blockNumber", reply, [pc |-> "snapshot"])
            /\ IF BlockResultsReady(ps)
               THEN StartBatteries(BlockData(ps))
               ELSE UNCHANGED <<stage, blockNumbers, battery, blockCalls>>
  /\ UNCHANGED <<registry, compared, concurrent, path, external, route, response,
                 endpointKey, probes>>

(***************************************************************************)
(* GET /api/test/:endpointKey                                              *)
(***************************************************************************)
\* 404 when RPC_ENDPOINTS[endpointKey] is falsy; otherwise the handler calls
\* getAllBlockNumbers and then testRpcEndpoint for the one endpoint.  With
\* an empty registry getAllBlockNumbers returns {} without any reply.
TestRequest(k) ==
  /\ route = "idle"
  /\ route' = "test"
  /\ endpointKey' = k
  /\ IF ~Registered(k)
     THEN /\ response' = Some(ErrorResponse(404, "Endpoint not found"))
          /\ stage' = "responded"
          /\ UNCHANGED <<blockPromises, blockCalls, blockNumbers, battery>>
     ELSE IF EndpointKeys = {}
          THEN /\ stage' = "batteries"
               /\ blockPromises' = EmptyObject
               /\ blockNumbers' = EmptyObject
               /\ battery' = (k :> testRpcEndpointStart(Endpoint(k), EmptyObject))
               /\ blockCalls' = (k :> IF Truthy(EmptyObject, k) THEN 0 ELSE 1)
               /\ UNCHANGED response
          ELSE /\ stage' = "snapshot"
               /\ blockPromises' = [j \in EndpointKeys |-> Null]
               /\ blockCalls' = [j \in EndpointKeys |-> 1]
               /\ UNCHANGED <<response, blockNumbers, battery>>
  /\ path' = <<"api", "test", k>>
  /\ UNCHANGED <<registry, compared, concurrent, external, replies, probes>>

(***************************************************************************)
(* GET /api/:endpointKey                                                   *)
(***************************************************************************)
\* keys of the registries, a key of none and a name every object inherits
RequestKeys == {"rpc_1", "rpc_2", "rpc_3", "rpc_9", "constructor"}

\* a snapshot handed to the single-endpoint invocation
EndpointKeyBlockNumbersFetched ==
  [k \in EndpointKeys |-> [success |-> TRUE, block |-> 0, hex |-> StrResult(<<0>>)]]

\* the blockNumbers argument of the handler's testRpcEndpoint call: {}
EndpointKeyBlockNumbers == EmptyObject

\* the handler is reached by the paths /api/<k> that no route registered
\* before it matches
EndpointKeyRequest(k) ==
  /\ route = "idle"
  /\ k \notin RoutesBeforeEndpointKey
  /\ route' = "endpointKey"
  /\ endpointKey' = k
  /\ IF ~Registered(k)
     THEN /\ response' = Some(ErrorResponse(404, "Endpoint not found"))
          /\ stage' = "responded"
          /\ UNCHANGED <<battery, blockCalls>>
     ELSE /\ battery' = (k :> testRpcEndpointStart(Endpoint(k), EndpointKeyBlockNumbers))
          /\ blockCalls' = (k :> IF Truthy(EndpointKeyBlockNumbers, k) THEN 0 ELSE 1)
          /\ stage' = "batteries"
          /\ UNCHANGED response
  /\ blockNumbers' = EndpointKeyBlockNumbers
  /\ path' = ApiPath(k)
  /\ UNCHANGED <<registry, compared, concurrent, external, blockPromises, replies,
                 probes>>

(***************************************************************************)
(* GET /api/external/status                                                *)
(***************************************************************************)
\* Object.entries(RPC_ENDPOINTS).find(endpoint.is_reference): first match
ReferenceIndexes == {j \in 1..Len(RPC_ENDPOINTS) : RPC_ENDPOINTS[j].is_reference}
FirstReference ==
  RPC_ENDPOINTS[CHOOSE j \in ReferenceIndexes : \A i \in ReferenceIndexes : j <= i]

\* without a reference the handler answers 500; otherwise it requests
\* GET /api/<reference key> from this server.  The request is routed like
\* any other: when the key is the segment of a list route, that route
\* answers with its list, which has no tests.blockNumber, so referenceBlock
\* stays null; otherwise the handler of /api/:endpointKey starts
\* testRpcEndpoint for the reference without a snapshot.  (A reference
\* whose key is "status" makes the handler run a whole fleet status inside
\* the request; no environment explored here has one.)
ExternalStatusRequest ==
  /\ route = "idle"
  /\ route' = "externalStatus"
  /\ ReferenceIndexes # {} => FirstReference.key # "status"
  /\ IF ReferenceIndexes = {}
     THEN /\ response' = Some(ErrorResponse(500, "No reference RPC found"))
          /\ stage' = "responded"
          /\ UNCHANGED <<battery, blockCalls>>
     ELSE IF FirstReference.key \in ListRoutes
     THEN /\ response' = Some(ErrorResponse(500, "Reference RPC block unavailable"))
          /\ stage' = "responded"
          /\ UNCHANGED <<battery, blockCalls>>
     ELSE /\ battery' = (FirstReference.key :>
                           testRpcEndpointStart(FirstReference, EndpointKeyBlockNumbers))
          /\ blockCalls' = (FirstReference.key :> 1)
          /\ stage' = "reference"
          /\ UNCHANGED response
  /\ blockNumbers' = EndpointKeyBlockNumbers
  /\ path' = <<"api", "external", "status">>
  /\ UNCHANGED <<registry, compared, concurrent, external, blockPromises, endpointKey,
                 replies, probes>>

\* the 10000 ms timeout of the request for the reference elapses first
ReferenceRequestTimesOut ==
  /\ route = "externalStatus"
  /\ stage = "reference"
  /\ response' = Some(ErrorResponse(500, "Reference RPC unavailable"))
  /\ stage' = "responded"
  /\ UNCHANGED <<registry, compared, concurrent, path, external, route, blockPromises,
                 blockNumbers, battery, blockCalls, endpointKey, replies, probes>>

\* rpcResponse.data?.result is truthy
JsTruthy(v) == v.t \in {"string", "object", "unprintable"}

\* the difference compared without its absolute value
JsLe(d, threshold) == d # NaN /\ d <= threshold

\* Math.abs(difference) <= threshold
JsAbsLe(d, threshold) == d # NaN /\ d <= threshold /\ -d <= threshold

ExternalFailure(externalRpc, error) ==
  [rpc |-> externalRpc.displayRpcUrl, blockDifference |-> Null,
   rpcName |-> externalRpc.name, blockNumber |-> Null, isHealthy |-> FALSE,
   error |-> Some(error)]

\* the entry pushed for one external endpoint, given the reply to its
\* eth_blockNumber request
ExternalEntry(externalRpc, reply, referenceBlock) ==
  IF reply.http = "error" THEN ExternalFailure(externalRpc, "error.message")
  ELSE IF reply.hasResult /\ JsTruthy(reply.result)
       THEN IF parseIntThrows(reply.result)
            THEN ExternalFailure(externalRpc, "error.message")
            ELSE LET currentBlock == parseInt16(reply.result)
                     d == BlockDifference(referenceBlock, currentBlock)
                 IN [rpc |-> externalRpc.displayRpcUrl,
                     blockDifference |-> Some(d),
                     rpcName |-> externalRpc.name,
                     blockNumber |-> Some(currentBlock),
                     isHealthy |-> JsAbsLe(d.difference, HealthyThreshold),
                     error |-> Null]
       ELSE ExternalFailure(externalRpc, "Invalid response from RPC")

ExternalStatusResponse(referenceRpc, referenceBlock, results) ==
  [status |-> 200,
   referenceRpc |-> [name |-> referenceRpc.name, url |-> referenceRpc.url,
                     blockNumber |-> referenceBlock],
   data |-> results]

\* the awaited request of the loop's current external endpoint settles; after
\* the last one the handler answers
ExternalSettles(reply) ==
  /\ route = "externalStatus"
  /\ stage = "externals"
  /\ LET i == Len(external.results) + 1
         results == Append(external.results,
                           ExternalEntry(EXTERNAL_RPC_ENDPOINTS[i], reply,
                                         external.referenceBlock[1]))
     IN /\ external' = [external EXCEPT !.results = results,
                                        !.replies = Append(@, reply)]
        /\ IF i = Len(EXTERNAL_RPC_ENDPOINTS)
           THEN /\ response' = Some(ExternalStatusResponse(FirstReference,
                                      external.referenceBlock[1], results))
                /\ stage' = "responded"
           ELSE UNCHANGED <<response, stage>>
  /\ UNCHANGED <<registry, compared, concurrent, path, route, blockPromises, blockNumbers,
                 battery, blockCalls, endpointKey, replies, probes>>

(***************************************************************************)
(* GET /api/endpoints, GET /health, GET /config                            *)
(***************************************************************************)
\* Object.entries(RPC_ENDPOINTS).map(([key, endpoint]) => ({key, name, url,
\* compare_with}))
EndpointsResponse ==
  [status |-> 200,
   body |-> [j \in 1..Len(RPC_ENDPOINTS) |->
               [key |-> RPC_ENDPOINTS[j].key, name |-> RPC_ENDPOINTS[j].name,
                url |-> RPC_ENDPOINTS[j].url,
                compare_with |-> RPC_ENDPOINTS[j].compare_with]]]

\* {status: 'ok', endpoints: Object.keys(RPC_ENDPOINTS)}
HealthResponse ==
  [status |-> 200,
   body |-> [j \in 1..Len(RPC_ENDPOINTS) |-> RPC_ENDPOINTS[j].key]]

\* {port, endpoints: RPC_ENDPOINTS}: the registry as it is
ConfigResponse == [status |-> 200, body |-> RPC_ENDPOINTS]

\* each of the three handlers answers at once from the registry
EndpointsRequest ==
  /\ route = "idle"
  /\ route' = "endpoints"
  /\ response' = Some(EndpointsResponse)
  /\ stage' = "responded"
  /\ path' = <<"api", "endpoints">>
  /\ UNCHANGED <<registry, compared, concurrent, external, blockPromises, blockNumbers,
                 battery, blockCalls, endpointKey, replies, probes>>

HealthRequest ==
  /\ route = "idle"
  /\ route' = "health"
  /\ response' = Some(HealthResponse)
  /\ stage' = "responded"
  /\ path' = <<"health">>
  /\ UNCHANGED <<registry, compared, concurrent, external, blockPromises, blockNumbers,
                 battery, blockCalls, endpointKey, replies, probes>>

ConfigRequest ==
  /\ route = "idle"
  /\ route' = "config"
  /\ response' = Some(ConfigResponse)
  /\ stage' = "responded"
  /\ path' = <<"config">>
  /\ UNCHANGED <<registry, compared, concurrent, external, blockPromises, blockNumbers,
                 battery, blockCalls, endpointKey, replies, probes>>

(***************************************************************************)
(* GET /api/external-rpcs                                                  *)
(***************************************************************************)
\* res.json(EXTERNAL_RPC_ENDPOINTS): the registry as it is
ExternalRpcsResponse == [status |-> 200, body |-> EXTERNAL_RPC_ENDPOINTS]

\* the handler answers at once
ExternalRpcsRequest ==
  /\ route = "idle"
  /\ route' = "externalRpcsList"
  /\ response' = Some(ExternalRpcsResponse)
  /\ stage' = "responded"
  /\ path' = <<"api", "external-rpcs">>
  /\ UNCHANGED <<registry, compared, concurrent, external, blockPromises, blockNumbers,
                 battery, blockCalls, endpointKey, replies, probes>>

(***************************************************************************)
(* GET /api/external-rpcs/status: for every external endpoint an RPC probe *)
(* and a WebSocket probe, all concurrent.                                  *)
(***************************************************************************)
\* a promise rejected with an error whose message is reason
RejectedWith(reason) == [status |-> "rejected", reason |-> reason]

\* testExternalRpc: everything, parseInt included, is inside its try block
testExternalRpc(reply) ==
  IF reply.http = "error" THEN Fulfilled([success |-> FALSE, error |-> "error.message"])
  ELSE IF reply.hasResult
       THEN IF parseIntThrows(reply.result)
            THEN Fulfilled([success |-> FALSE, error |-> "error.message"])
            ELSE Fulfilled([success |-> TRUE, blockNumber |-> parseInt16(reply.result),
                            responseTime |-> "N/A"])
       ELSE Fulfilled([success |-> FALSE, error |-> "Invalid response format"])

ProbeReplies ==
  {ErrorReply, NoResultReply, ResultReply(NullResult), ResultReply(UnprintableResult),
   ResultReply(StrResult(<<0>>))}

\* new WebSocket(wsUrl) throws a SyntaxError unless the URL is a ws: or wss:
\* URL
ValidWsUrl(wsUrl) == wsUrl # <<>> /\ Head(wsUrl) \in {"ws://", "wss://"}

\* what happens to the connection testWebSocket opened: the socket emits
\* open or error, or the timer set by testWebSocket fires
WsEvents == {"open", "error", "timeout"}

\* the value testWebSocket resolves with
WsOutcome(event) ==
  CASE event = "open" -> [success |-> TRUE, message |-> "WebSocket connection successful"]
    [] event = "error" -> [success |-> FALSE, error |-> "error.message"]
    [] OTHER -> [success |-> FALSE, error |-> "WebSocket connection timeout"]

\* what the handler of the event does to the connection: ws.close() on open,
\* ws.terminate() on timeout, nothing on error
WsAction(event) ==
  CASE event = "open" -> "close"
    [] event = "timeout" -> "terminate"
    [] OTHER -> "none"

\* testWebSocket without its timer
testWebSocketStartWithoutTimer(wsUrl) ==
  IF ValidWsUrl(wsUrl)
  THEN [ws |-> Null, event |-> "none", action |-> "none", timer |-> "none",
        resolves |-> 0, late |-> {}]
  ELSE [ws |-> Some(RejectedWith("Invalid URL")), event |-> "threw", action |-> "none",
        timer |-> "none", resolves |-> 0, late |-> {}]

\* testWebSocket up to the return of its promise: the executor creates the
\* connection, sets the timer and registers the handlers, or new WebSocket
\* throws and the promise is rejected.  resolves counts the calls of
\* resolve, late holds the events that arrived after the first call.
testWebSocketStart(wsUrl) ==
  IF ValidWsUrl(wsUrl)
  THEN [ws |-> Null, event |-> "none", action |-> "none", timer |-> "armed",
        resolves |-> 0, late |-> {}]
  ELSE [ws |-> Some(RejectedWith("Invalid URL")), event |-> "threw", action |-> "none",
        timer |-> "none", resolves |-> 0, late |-> {}]

\* a handler that resolves whether or not the probe has resolved before; a
\* settled promise keeps its value
WsHandledUnguarded(p, event) ==
  [p EXCEPT !.ws = IF @ = Null THEN Some(Fulfilled(WsOutcome(event))) ELSE @,
            !.event = IF p.resolves = 0 THEN event ELSE @,
            !.action = WsAction(event),
            !.timer = IF event = "timeout" THEN "fired" ELSE "cleared",
            !.resolves = @ + 1,
            !.late = IF p.resolves = 0 THEN @ ELSE @ \cup {event}]

\* the handler of the event runs on probe p: if (!resolved) { resolved =
\* true; clearTimeout / ws.close() / ws.terminate(); resolve(outcome) }
WsHandled(p, event) ==
  IF p.resolves # 0
  THEN [p EXCEPT !.late = @ \cup {event}]
  ELSE [p EXCEPT !.ws = Some(Fulfilled(WsOutcome(event))),
                 !.event = event,
                 !.action = WsAction(event),
                 !.timer = IF event = "timeout" THEN "fired" ELSE "cleared",
                 !.resolves = 1]

\* rpcResult.status === 'fulfilled' ? rpcResult.value
\*   : {success: false, error: rpcResult.reason?.message || fallback}
SettledOutcome(result, fallback) ==
  IF result.status = "fulfilled" THEN result.value
  ELSE [success |-> FALSE,
        error |-> IF result.reason # Undefined THEN result.reason ELSE fallback]

\* either probe succeeding taken as enough
OverallSuccessEither(rpcTest, wsTest) == rpcTest.success \/ wsTest.success

\* rpcTest.success && wsTest.success
OverallSuccess(rpcTest, wsTest) == rpcTest.success /\ wsTest.success

ProbeResult(endpoint, rpcResult, wsResult) ==
  LET rpcTest == SettledOutcome(rpcResult, "RPC test failed")
      wsTest == SettledOutcome(wsResult, "WebSocket test failed")
  IN [name |-> endpoint.name,
      rpcUrl |-> IF endpoint.displayRpcUrl # <<>> THEN endpoint.displayRpcUrl
                 ELSE endpoint.rpcUrl,
      wsUrl |-> IF endpoint.displayWsUrl # <<>> THEN endpoint.displayWsUrl
                ELSE endpoint.wsUrl,
      description |-> endpoint.description,
      rpc |-> rpcTest,
      websocket |-> wsTest,
      overallSuccess |-> OverallSuccess(rpcTest, wsTest)]

\* the entry built for an endpoint whose promise was rejected
ProbeFallback(endpoint, reason) ==
  [name |-> endpoint.name,
   rpcUrl |-> IF endpoint.displayRpcUrl # <<>> THEN endpoint.displayRpcUrl
              ELSE endpoint.rpcUrl,
   wsUrl |-> IF endpoint.displayWsUrl # <<>> THEN endpoint.displayWsUrl
             ELSE endpoint.wsUrl,
   description |-> endpoint.description,
   rpc |-> [success |-> FALSE, error |-> "RPC test failed"],
   websocket |-> [success |-> FALSE, error |-> "WebSocket test failed"],
   overallSuccess |-> FALSE,
   error |-> IF reason # Undefined THEN reason ELSE "Unknown error"]

\* joining the two probes so that the first rejection rejects the join
AllSettledRaising(rpcResult, wsResult) ==
  IF rpcResult.status = "rejected" THEN rpcResult
  ELSE IF wsResult.status = "rejected" THEN wsResult
       ELSE Fulfilled(<<rpcResult, wsResult>>)

\* await Promise.allSettled([testExternalRpc(...), testWebSocket(...)])
AllSettled(rpcResult, wsResult) == Fulfilled(<<rpcResult, wsResult>>)

\* the promise of the async callback mapped over EXTERNAL_RPC_ENDPOINTS
EndpointProbe(endpoint, rpcResult, wsResult) ==
  LET settled == AllSettled(rpcResult, wsResult) IN
  IF settled.status = "rejected" THEN settled
  ELSE Fulfilled(ProbeResult(endpoint, settled.value[1], settled.value[2]))

\* results.map(...): the value of a fulfilled promise, the fallback entry for
\* a rejected one
EndpointResults(ps) ==
  [i \in 1..Len(ps) |->
     LET result == EndpointProbe(EXTERNAL_RPC_ENDPOINTS[i], ps[i].rpc[1], ps[i].ws[1]) IN
     IF result.status = "fulfilled" THEN result.value
     ELSE ProbeFallback(EXTERNAL_RPC_ENDPOINTS[i], result.reason)]

\* the visibility filter left out
VisibleUnfiltered == 1..Len(EXTERNAL_RPC_ENDPOINTS)

\* the indexes of the endpoints not hidden from the UI
Visible == {i \in 1..Len(EXTERNAL_RPC_ENDPOINTS) : EXTERNAL_RPC_ENDPOINTS[i].showInUI}

ExternalRpcsStatusResponse(endpointResults) ==
  [status |-> 200,
   total |-> Cardinality(Visible),
   working |-> Cardinality({i \in Visible : endpointResults[i].overallSuccess}),
   failed |-> Cardinality({i \in Visible : ~endpointResults[i].overallSuccess}),
   \* the visible entries, each under the index of its endpoint
   endpoints |-> [i \in Visible |-> endpointResults[i]]]

ProbesSettled(ps) == \A i \in 1..Len(ps) : ps[i].rpc # Null /\ ps[i].ws # Null

\* the handler issues both probes of every external endpoint and awaits all
\* of them
ExternalRpcsStatusRequest ==
  /\ route = "idle"
  /\ route' = "externalRpcs"
  /\ stage' = "probes"
  /\ probes' = [i \in 1..Len(EXTERNAL_RPC_ENDPOINTS) |->
                  [rpc |-> Null, reply |-> Null]
                    @@ testWebSocketStart(EXTERNAL_RPC_ENDPOINTS[i].wsUrl)]
  /\ path' = <<"api", "external-rpcs", "status">>
  /\ UNCHANGED <<registry, compared, concurrent, external, blockPromises, blockNumbers,
                 battery, blockCalls, response, endpointKey, replies>>

\* a probe has settled: when it was the last one the handler answers
ProbeStep(ps) ==
  /\ probes' = ps
  /\ IF ProbesSettled(ps)
     THEN /\ response' = Some(ExternalRpcsStatusResponse(EndpointResults(ps)))
          /\ stage' = "responded"
     ELSE UNCHANGED <<response, stage>>
  /\ UNCHANGED <<registry, compared, concurrent, path, external, route, blockPromises,
                 blockNumbers, battery, blockCalls, endpointKey, replies>>

\* the request of testExternalRpc for endpoint i settles
RpcProbeSettles(i, reply) ==
  /\ route = "externalRpcs"
  /\ stage = "probes"
  /\ i \in 1..Len(probes)
  /\ probes[i].rpc = Null
  /\ ProbeStep([probes EXCEPT ![i].rpc = Some(testExternalRpc(reply)),
                              ![i].reply = Some(reply)])

\* the first of open, error and timeout happens to the connection of
\* endpoint i
WsProbeSettles(i, event) ==
  /\ route = "externalRpcs"
  /\ stage = "probes"
  /\ i \in 1..Len(probes)
  /\ probes[i].ws = Null
  /\ event = "timeout" => probes[i].timer = "armed"
  /\ ProbeStep([probes EXCEPT ![i] = WsHandled(probes[i], event)])

\* an event of the connection of endpoint i after its probe has resolved:
\* the socket emits each of open and error at most once, the timer fires
\* unless it was cleared
WsLateEvent(i, event) ==
  /\ route = "externalRpcs"
  /\ i \in 1..Len(probes)
  /\ probes[i].ws # Null
  /\ probes[i].event \notin {"threw", event}
  /\ event \notin probes[i].late
  /\ event = "timeout" => probes[i].timer = "armed"
  /\ probes' = [probes EXCEPT ![i] = WsHandled(probes[i], event)]
  /\ UNCHANGED <<registry, compared, concurrent, path, external, route, stage,
                 blockPromises, blockNumbers, battery, blockCalls, response, endpointKey,
                 replies>>

(***************************************************************************)
(* The request ends: everything it allocated is discarded.                 *)
(***************************************************************************)
NoExternal == [referenceBlock |-> Null, results |-> <<>>, replies |-> <<>>]

Idle ==
  /\ route = "idle"
  /\ external = NoExternal
  /\ stage = "idle"
  /\ blockPromises = EmptyObject
  /\ blockNumbers = EmptyObject
  /\ battery = EmptyObject
  /\ blockCalls = EmptyObject
  /\ response = Null
  /\ endpointKey = NoKey
  /\ replies = EmptyObject
  /\ probes = <<>>
  /\ path = NoPath

RequestEnds ==
  /\ stage = "responded"
  /\ route' = "idle"
  /\ stage' = "idle"
  /\ blockPromises' = EmptyObject
  /\ blockNumbers' = EmptyObject
  /\ battery' = EmptyObject
  /\ blockCalls' = EmptyObject
  /\ response' = Null
  /\ external' = NoExternal
  /\ endpointKey' = NoKey
  /\ replies' = EmptyObject
  /\ probes' = <<>>
  /\ path' = NoPath
  /\ UNCHANGED <<registry, compared, concurrent>>

\* the registries as resolved when the module is loaded
Resolved ==
  /\ RPC_ENDPOINTS = getRpcEndpoints(environment.primary)
  /\ EXTERNAL_RPC_ENDPOINTS = getExternalRpcEndpoints(environment.external)

Init ==
  /\ environment \in [primary : Environments, external : ExternalEnvironments,
                      legacy : {NoLegacy}]
  /\ Resolved
  /\ Idle
  /\ misbehaving = NoKey
  /\ script = EmptyObject
  /\ baseline = Null
  /\ concurrent = NoConcurrent

Next ==
  \/ StatusRequest
  \/ \E k \in RequestKeys : \E reply \in BlockReplies : BlockPromiseSettles(k, reply)
  \/ \E k \in RequestKeys : \E reply \in BlockReplies : BlockNumberSettles(k, reply)
  \/ \E k \in RequestKeys : \E c \in {"chainId", "gasPrice", "syncStatus", "system"} :
       \E reply \in Replies(c) : TestSettles(k, c, reply)
  \/ \E k \in RequestKeys : TestRequest(k)
  \/ \E k \in RequestKeys : EndpointKeyRequest(k)
  \/ ExternalStatusRequest
  \/ ReferenceRequestTimesOut
  \/ \E reply \in ExternalReplies : ExternalSettles(reply)
  \/ EndpointsRequest
  \/ HealthRequest
  \/ ConfigRequest
  \/ ExternalRpcsRequest
  \/ ExternalRpcsStatusRequest
  \/ \E i \in 1..Len(EXTERNAL_RPC_ENDPOINTS) : \E reply \in ProbeReplies :
       RpcProbeSettles(i, reply)
  \/ \E i \in 1..Len(EXTERNAL_RPC_ENDPOINTS) : \E event \in WsEvents :
       WsProbeSettles(i, event)
  \/ RequestEnds

Spec == Init /\ [][Next]_vars

(***************************************************************************)
(* Two fleet-status cycles that differ only in the replies of one          *)
(* endpoint.  Every endpoint has a script, the reply it gives to each call *)
(* whenever the call is made: any reply from which the diagnostic wrappers *)
(* return a value.  In the first cycle all endpoints follow their script   *)
(* and the misbehaving one answers every call properly, in the second      *)
(* cycle the misbehaving endpoint, one that no other endpoint is compared  *)
(* with, replies anything.                                                 *)
(***************************************************************************)
Calls(endpoint) == {"blockNumber"} \cup RpcTests(endpoint)

ProperReply(c) ==
  CASE c = "blockNumber" -> ResultReply(StrResult(<<0>>))
    [] c = "chainId" -> ResultReply(StrResult(<<3, 14, 6>>))
    [] c = "gasPrice" -> ResultReply(StrResult(<<1>>))
    [] c = "syncStatus" -> ResultReply(FalseResult)
    [] OTHER -> ResultReply(ObjectResult)

Scripts(endpoint) ==
  {f \in [Calls(endpoint) -> UNION {Replies(c) : c \in Calls(endpoint)}] :
     \A c \in Calls(endpoint) :
       f[c] \in Replies(c) /\ f[c] # ResultReply(UnprintableResult)}

Scripted(k, c, reply) ==
  (baseline = Null \/ k # misbehaving)
    => (k \in DOMAIN script /\ c \in DOMAIN script[k] /\ reply = script[k][c])

\* the endpoints no other endpoint is compared with
Independent ==
  {m \in EndpointKeys : \A k \in EndpointKeys \ {m} : Endpoint(k).compare_with # m}

InitCompared ==
  /\ environment \in [primary : Environments, external : {EnvNoExternal},
                      legacy : {NoLegacy}]
  /\ Resolved
  /\ Idle
  /\ misbehaving \in Independent
  /\ \E e \in EndpointKeys \ {misbehaving} : \E f \in Scripts(Endpoint(e)) :
       script = [k \in EndpointKeys |->
                   IF k = e THEN f ELSE [c \in Calls(Endpoint(k)) |-> ProperReply(c)]]
  /\ baseline = Null
  /\ concurrent = NoConcurrent

\* what a fleet status response says about endpoint k: its score and whether
\* it has a blockDifference, or nothing when the response is an error
Reported(resp, k) ==
  IF resp.status = 200
  THEN <<resp.endpoints[k].health[1].score,
         IF resp.endpoints[k].blockDifference # Null THEN 1 ELSE 0>>
  ELSE <<>>

\* the first cycle has answered: its response is kept for the comparison
FirstCycleEnds ==
  /\ stage = "responded"
  /\ baseline = Null
  /\ baseline' = Some([k \in EndpointKeys |-> Reported(response[1], k)])
  /\ route' = "idle"
  /\ stage' = "idle"
  /\ blockPromises' = EmptyObject
  /\ blockNumbers' = EmptyObject
  /\ battery' = EmptyObject
  /\ blockCalls' = EmptyObject
  /\ response' = Null
  /\ replies' = EmptyObject
  /\ path' = NoPath
  /\ UNCHANGED <<registry, external, misbehaving, script, concurrent, endpointKey,
                 probes>>

NextCompared ==
  \/ StatusRequest
  \/ \E k \in RequestKeys : \E reply \in BlockReplies :
       Scripted(k, "blockNumber", reply) /\ BlockPromiseSettles(k, reply)
  \/ \E k \in RequestKeys : \E reply \in BlockReplies :
       Scripted(k, "blockNumber", reply) /\ BlockNumberSettles(k, reply)
  \/ \E k \in RequestKeys : \E c \in {"chainId", "gasPrice", "syncStatus", "system"} :
       \E reply \in Replies(c) : Scripted(k, c, reply) /\ TestSettles(k, c, reply)
  \/ FirstCycleEnds

SpecCompared == InitCompared /\ [][NextCompared]_vars

(***************************************************************************)
(* The start of the process: the registries are resolved from the          *)
(* environment, then requests are served.  The environment has two primary *)
(* and two external slots; the fields of the first are set or unset in     *)
(* every combination, the second is unset, or complete with an identity    *)
(* key of its own or with the key of the first.                            *)
(***************************************************************************)
PrimarySlots ==
  [NAME : {Unset, "A"}, URL : {Unset, "http://a"}, CHAIN_ID : {Unset, ConfiguredChainId},
   TIMEOUT : {0, ConfiguredTimeout}, COMPARE_WITH : {Unset, "rpc_2"},
   SYSTEM_URL : {Unset, "http://a/system"}, KEY : {Unset, "main"},
   IS_REFERENCE : {Unset, "true", "yes"},
   DISPLAY_URL : {Unset, "http://a.shown"}]

SecondPrimarySlots ==
  {Slot(Unset, Unset, Unset, Unset, Unset, Unset),
   Slot("B", "http://b", Unset, Unset, Unset, Unset),
   Slot("B", "http://b", Unset, Unset, "rpc_1", Unset),
   Slot("B", "http://b", Unset, Unset, "main", Unset)}

ExternalSlots ==
  [NAME : {Unset, "X"},
   URL : {<<>>, <<"http://", "x.example">>,
          <<"https://", "x.example/evm", "?", "chain=998">>},
   WS_URL : {<<>>, <<"ws://", "x.example:9091">>},
   DESC : {Unset, "Node X"},
   API_KEY : {Unset, "secret"},
   SHOW_IN_UI : {Unset, "false", "true"}]

SecondExternalSlots ==
  {ExternalSlot(Unset, <<>>, <<>>, Unset, Unset, Unset),
   ExternalSlot("Y", <<"http://", "y.example">>, <<>>, Unset, Unset, Unset)}

StartEnvironments ==
  [primary : {<<a, b>> : a \in PrimarySlots, b \in SecondPrimarySlots},
   external : {EnvNoExternal},
   legacy : {NoLegacy, LegacySet}]
    \cup [primary : {EnvReference},
          external : {<<a, b>> : a \in ExternalSlots, b \in SecondExternalSlots},
          legacy : {NoLegacy}]

InitStart ==
  /\ environment \in StartEnvironments
  /\ RPC_ENDPOINTS = <<>>
  /\ EXTERNAL_RPC_ENDPOINTS = <<>>
  /\ route = "starting"
  /\ external = NoExternal
  /\ stage = "idle"
  /\ blockPromises = EmptyObject
  /\ blockNumbers = EmptyObject
  /\ battery = EmptyObject
  /\ blockCalls = EmptyObject
  /\ response = Null
  /\ endpointKey = NoKey
  /\ replies = EmptyObject
  /\ probes = <<>>
  /\ path = NoPath
  /\ misbehaving = NoKey
  /\ script = EmptyObject
  /\ baseline = Null
  /\ concurrent = NoConcurrent

\* const RPC_ENDPOINTS = getRpcEndpoints();
\* const EXTERNAL_RPC_ENDPOINTS = getExternalRpcEndpoints();
Start ==
  /\ route = "starting"
  /\ RPC_ENDPOINTS' = getRpcEndpoints(environment.primary)
  /\ EXTERNAL_RPC_ENDPOINTS' = getExternalRpcEndpoints(environment.external)
  /\ route' = "idle"
  /\ UNCHANGED <<environment, compared, concurrent, path, external, stage, blockPromises,
                 blockNumbers, battery, blockCalls, response, endpointKey, replies, probes>>

NextStart ==
  \/ Start
  \/ ExternalRpcsRequest
  \/ RequestEnds

SpecStart == InitStart /\ [][NextStart]_vars

(***************************************************************************)
(* The external probe query alone, with the events that reach a WebSocket  *)
(* probe after it has resolved.  The timer of a probe fires unless it was  *)
(* cleared, and the request of testExternalRpc, made with a timeout,       *)
(* settles; whether the socket ever emits open or error is up to the       *)
(* server it connects to.                                                  *)
(***************************************************************************)
NextProbe ==
  \/ ExternalRpcsStatusRequest
  \/ \E i \in 1..Len(EXTERNAL_RPC_ENDPOINTS) : \E reply \in ProbeReplies :
       RpcProbeSettles(i, reply)
  \/ \E i \in 1..Len(EXTERNAL_RPC_ENDPOINTS) : \E event \in WsEvents :
       WsProbeSettles(i, event)
  \/ \E i \in 1..Len(EXTERNAL_RPC_ENDPOINTS) : \E event \in WsEvents :
       WsLateEvent(i, event)
  \/ RequestEnds

SpecProbe == Init /\ [][NextProbe]_vars

FairSpecProbe ==
  /\ SpecProbe
  /\ WF_vars(\E i \in 1..Len(EXTERNAL_RPC_ENDPOINTS) : WsProbeSettles(i, "timeout"))
  /\ WF_vars(\E i \in 1..Len(EXTERNAL_RPC_ENDPOINTS) : \E reply \in ProbeReplies :
               RpcProbeSettles(i, reply))

(***************************************************************************)
(* Two requests in flight at once.  While the first request (any route) is *)
(* being served, a second one, GET /api/:endpointKey, arrives; its handler *)
(* holds its parameter and its testRpcEndpoint invocation in locals of its *)
(* own, and the events of the two requests interleave.  The monitored      *)
(* nodes answer each call properly or not at all, and the diagnostic calls *)
(* of the second request properly.                                         *)
(***************************************************************************)
PlainReplies ==
  {ErrorReply} \cup {ProperReply(c) : c \in {"blockNumber", "chainId", "gasPrice",
                                             "syncStatus", "system"}}

\* the keys the second request asks for: a registered one and an unknown one
ConcurrentKeys == {"rpc_1", "rpc_9"}

\* the snapshot of the request in flight handed to the second request's
\* invocation
ConcurrentBlockNumbersShared == blockNumbers

\* the blockNumbers argument of the second handler's testRpcEndpoint call: {}
ConcurrentBlockNumbers == EmptyObject

\* the second handler resumes when its invocation settles
ConcurrentResponse(b) ==
  IF b.pc = "rejected" THEN Some(ErrorResponse(500, "error.message"))
  ELSE IF b.pc = "done" THEN Some(ResultResponse(b.results))
       ELSE Null

ConcurrentRequest(k) ==
  /\ route \notin {"idle", "starting"}
  /\ k \notin RoutesBeforeEndpointKey
  /\ stage # "responded"
  /\ concurrent = NoConcurrent
  /\ concurrent' =
       IF ~Registered(k)
       THEN [NoConcurrent EXCEPT !.key = k,
                                 !.response = Some(ErrorResponse(404, "Endpoint not found"))]
       ELSE [key |-> k,
             battery |-> Some(testRpcEndpointStart(Endpoint(k), ConcurrentBlockNumbers)),
             replies |-> EmptyObject,
             response |-> Null]
  /\ UNCHANGED <<registry, compared, path, route, stage, blockPromises, blockNumbers,
                 battery, blockCalls, response, external, endpointKey, replies, probes>>

\* the awaited getBlockNumber of the second request's invocation settles
ConcurrentBlockSettles(reply) ==
  /\ concurrent.battery # Null
  /\ concurrent.battery[1].pc = "block"
  /\ LET endpoint == Endpoint(concurrent.key)
         p == getBlockNumber(reply)
         b == IF p.status = "rejected" THEN RejectedBattery(endpoint)
              ELSE IssueRpcTests(endpoint, concurrent.battery[1].results, p.value)
     IN concurrent' = [concurrent EXCEPT !.battery = Some(b),
                                         !.replies = ("blockNumber" :> reply) @@ @,
                                         !.response = ConcurrentResponse(b)]
  /\ UNCHANGED <<registry, compared, path, route, stage, blockPromises, blockNumbers,
                 battery, blockCalls, response, external, endpointKey, replies, probes>>

\* one of the concurrent calls of the second request's invocation settles
ConcurrentTestSettles(c, reply) ==
  /\ concurrent.battery # Null
  /\ concurrent.battery[1].pc = "tests"
  /\ c \in DOMAIN concurrent.battery[1].promises
  /\ concurrent.battery[1].promises[c] = Null
  /\ LET endpoint == Endpoint(concurrent.key)
         p == Wrapper(c, reply)
         settled == [concurrent.battery[1] EXCEPT !.promises[c] = Some(p)]
         b == IF p.status = "rejected" THEN RejectedBattery(endpoint)
              ELSE IF PromiseAllFulfilled(settled.promises)
                   THEN testRpcEndpointFinish(endpoint, settled, ConcurrentBlockNumbers)
                   ELSE settled
     IN concurrent' = [concurrent EXCEPT !.battery = Some(b),
                                         !.replies = (c :> reply) @@ @,
                                         !.response = ConcurrentResponse(b)]
  /\ UNCHANGED <<registry, compared, path, route, stage, blockPromises, blockNumbers,
                 battery, blockCalls, response, external, endpointKey, replies, probes>>

\* the second request has answered: its locals are discarded
ConcurrentEnds ==
  /\ concurrent.response # Null
  /\ concurrent' = NoConcurrent
  /\ UNCHANGED <<registry, compared, path, route, stage, blockPromises, blockNumbers,
                 battery, blockCalls, response, external, endpointKey, replies, probes>>

NextConcurrent ==
  \/ StatusRequest
  \/ \E k \in RequestKeys : \E reply \in PlainReplies \cap BlockReplies :
       BlockPromiseSettles(k, reply)
  \/ \E k \in RequestKeys : \E reply \in PlainReplies \cap BlockReplies :
       BlockNumberSettles(k, reply)
  \/ \E k \in RequestKeys : \E c \in {"chainId", "gasPrice", "syncStatus", "system"} :
       \E reply \in PlainReplies \cap Replies(c) : TestSettles(k, c, reply)
  \/ \E k \in RequestKeys : TestRequest(k)
  \/ \E k \in RequestKeys : EndpointKeyRequest(k)
  \/ ExternalStatusRequest
  \/ ReferenceRequestTimesOut
  \/ \E reply \in PlainReplies \cap ExternalReplies : ExternalSettles(reply)
  \/ EndpointsRequest
  \/ HealthRequest
  \/ ConfigRequest
  \/ ExternalRpcsRequest
  \/ ExternalRpcsStatusRequest
  \/ \E i \in 1..Len(EXTERNAL_RPC_ENDPOINTS) : \E reply \in PlainReplies \cap ProbeReplies :
       RpcProbeSettles(i, reply)
  \/ \E i \in 1..Len(EXTERNAL_RPC_ENDPOINTS) : \E event \in WsEvents :
       WsProbeSettles(i, event)
  \/ RequestEnds
  \/ \E k \in ConcurrentKeys : ConcurrentRequest(k)
  \/ \E reply \in PlainReplies \cap BlockReplies : ConcurrentBlockSettles(reply)
  \/ \E c \in {"chainId", "gasPrice", "syncStatus", "system"} :
       ConcurrentTestSettles(c, ProperReply(c))
  \/ ConcurrentEnds

\* the registry with a reference, the external registry the built-in list
InitConcurrent ==
  /\ Init
  /\ environment.primary = EnvReference
  /\ environment.external = EnvNoExternal

SpecConcurrent == InitConcurrent /\ [][NextConcurrent]_vars

(***************************************************************************)
(* Identity keys that are also route segments.  RPC_{N}_KEY is any string; *)
(* here the reference is keyed "endpoints" and a node "status", the third  *)
(* node has its default key.  The requests are those of one segment below  *)
(* /api, and the reference-relative query; the nodes answer the block      *)
(* height call properly or not at all, and the other calls properly.       *)
(***************************************************************************)
EnvRouteKeys ==
  << Slot("Reference", "http://ref", Unset, Unset, "endpoints", "true"),
     Slot("Node", "http://node", "endpoints", Unset, "status", Unset),
     Slot("Other", "http://other", Unset, Unset, Unset, Unset) >>

\* the segments requested below /api: the keys of the registry, a key of
\* none and the segment of the external list
Segments == {"endpoints", "status", "rpc_3", "rpc_9", "external-rpcs"}

NextRoutes ==
  \/ StatusRequest
  \/ EndpointsRequest
  \/ ExternalRpcsRequest
  \/ \E k \in Segments : EndpointKeyRequest(k)
  \/ ExternalStatusRequest
  \/ \E k \in Segments : \E reply \in PlainReplies \cap BlockReplies :
       BlockPromiseSettles(k, reply)
  \/ \E k \in Segments : \E reply \in PlainReplies \cap BlockReplies :
       BlockNumberSettles(k, reply)
  \/ \E k \in Segments : \E c \in {"chainId", "gasPrice", "syncStatus"} :
       TestSettles(k, c, ProperReply(c))
  \/ RequestEnds

InitRoutes ==
  /\ environment = [primary |-> EnvRouteKeys, external |-> EnvNoExternal,
                    legacy |-> NoLegacy]
  /\ Resolved
  /\ Idle
  /\ misbehaving = NoKey
  /\ script = EmptyObject
  /\ baseline = Null
  /\ concurrent = NoConcurrent

SpecRoutes == InitRoutes /\ [][NextRoutes]_vars

(***************************************************************************)
(* Properties.                                                             *)
(***************************************************************************)
\* the endpoints whose testRpcEndpoint invocation has returned its result
Done == {k \in DOMAIN battery : battery[k].pc = "done"}
ResultOf(k) == battery[k].results

\* E's invocation was given a snapshot in which both its own entry and the
\* entry of its compare_with target succeeded
BothSucceeded(k) ==
  /\ Endpoint(k).compare_with \in DOMAIN blockNumbers
  /\ k \in DOMAIN blockNumbers
  /\ blockNumbers[k].success
  /\ blockNumbers[Endpoint(k).compare_with].success

\* C2: when the snapshot entries of E and of its compare_with target R both
\* succeeded, E's result carries a BlockDifference whose referenceBlock is
\* snapshot[R].block, whose currentBlock is snapshot[E].block and whose
\* difference is snapshot[R].block - snapshot[E].block (not a number when
\* one of the two heights is not a number).
C2_DifferenceIsReferenceMinusCurrent ==
  \A k \in Done :
    BothSucceeded(k) =>
      /\ ResultOf(k).blockDifference # Null
      /\ LET d == ResultOf(k).blockDifference[1]
             r == blockNumbers[Endpoint(k).compare_with].block
             e == blockNumbers[k].block
         IN /\ d.referenceBlock = r
            /\ d.currentBlock = e
            /\ (r # NaN /\ e # NaN) => d.difference = r - e
            /\ (r = NaN \/ e = NaN) => d.difference = NaN
            /\ (r = 1 /\ e = 0) => d.difference = 1 /\ d.isBehind

\* C2 witness: an endpoint one block behind its reference has its result
C2_Witness ==
  \E k \in Done :
    /\ BothSucceeded(k)
    /\ Endpoint(k).compare_with # k
    /\ blockNumbers[Endpoint(k).compare_with].block = 1
    /\ blockNumbers[k].block = 0
    /\ ResultOf(k).blockDifference # Null

\* C4: an endpoint without compare_with, or whose compare_with target has no
\* successful snapshot entry, or whose own block-height outcome failed, gets
\* a result with blockDifference null.
C4_AbsentWhenNotComparable ==
  \A k \in Done :
    (\/ Endpoint(k).compare_with = NoKey
     \/ Endpoint(k).compare_with \notin DOMAIN blockNumbers
     \/ ~blockNumbers[Endpoint(k).compare_with].success
     \/ ~ResultOf(k).tests["blockNumber"].success)
      => ResultOf(k).blockDifference = Null

\* C4 witness: in a fleet cycle, an endpoint whose own height succeeded and
\* whose target's snapshot entry failed has its result
C4_Witness ==
  \E k \in Done :
    /\ route = "status"
    /\ Endpoint(k).compare_with \in DOMAIN blockNumbers
    /\ ~blockNumbers[Endpoint(k).compare_with].success
    /\ ResultOf(k).tests["blockNumber"].success
    /\ ResultOf(k).blockDifference = Null

\* C6: in a fleet-status cycle, once any testRpcEndpoint invocation has been
\* started with a snapshot, every block-height call of the snapshot has
\* settled and the snapshot holds its result.
C6_SnapshotCompleteBeforeDifference ==
  (route = "status" /\ stage \in {"batteries", "responded"} /\ DOMAIN blockNumbers # {})
    => \A k \in EndpointKeys :
         /\ k \in DOMAIN blockPromises
         /\ blockPromises[k] # Null
         /\ k \in DOMAIN blockNumbers
         /\ blockNumbers[k] = blockPromises[k][1].value

\* C6 witness: a fleet cycle in which a block difference has been computed
C6_Witness ==
  /\ route = "status"
  /\ \E k \in Done : ResultOf(k).blockDifference # Null

\* C8: the response of GET /api/:endpointKey that carries a result has
\* blockDifference null.
C8_SingleEndpointHasNoDifference ==
  (route = "endpointKey" /\ response # Null /\ response[1].status = 200)
    => response[1].result.blockDifference = Null

\* C8 witness: the single-endpoint answer for an endpoint that has a
\* compare_with target and whose own height was obtained
C8_Witness ==
  /\ route = "endpointKey"
  /\ response # Null
  /\ response[1].status = 200
  /\ \E k \in DOMAIN battery : Endpoint(k).compare_with \in EndpointKeys
  /\ response[1].result.tests["blockNumber"].success

\* C9: in every result, successfulTests is the number of successful outcomes
\* of tests, totalTests the number of outcomes (at least 1), and score is
\* successfulTests / totalTests * 100 exactly, between 0 and 100.
C9_ScoreIsSuccessRatio ==
  \A k \in Done :
    LET h == ResultOf(k).health[1]
        tests == ResultOf(k).tests
    IN /\ h.successfulTests = Cardinality({t \in DOMAIN tests : tests[t].success})
       /\ h.totalTests = Cardinality(DOMAIN tests)
       /\ h.totalTests >= 1
       /\ h.score * h.totalTests = h.successfulTests * 100
       /\ h.score >= 0
       /\ h.score <= 100

\* C9 witness: a result with some tests failed and some successful
C9_Witness ==
  \E k \in Done :
    /\ ResultOf(k).health[1].successfulTests = 3
    /\ ResultOf(k).health[1].score = 75

\* C10: in every fleet status response the three counts add up to total,
\* the number of registered endpoints.
C10_SummaryPartitions ==
  (route = "status" /\ response # Null /\ response[1].status = 200)
    => LET summary == response[1].summary IN
         /\ summary.healthy + summary.partiallyHealthy + summary.unhealthy = summary.total
         /\ summary.total = Cardinality(EndpointKeys)

\* C10 witness: a fleet status response with an endpoint scoring exactly 50
\* and an endpoint below 50
C10_Witness ==
  /\ route = "status"
  /\ response # Null
  /\ response[1].status = 200
  /\ \E k \in DOMAIN response[1].endpoints : response[1].endpoints[k].health[1].score = 50
  /\ response[1].summary.unhealthy >= 1

\* C1: of two fleet-status cycles that differ only in the replies of the
\* misbehaving endpoint M, every other endpoint E gets the same score and
\* the same presence of blockDifference.
C1_OthersUnaffected ==
  (baseline # Null /\ route = "status" /\ response # Null)
    => \A k \in EndpointKeys \ {misbehaving} :
         Reported(response[1], k) = baseline[1][k]

\* every BlockDifference produced so far, by testRpcEndpoint or by
\* /api/external/status
Differences ==
  {ResultOf(k).blockDifference[1] : k \in {j \in Done : ResultOf(j).blockDifference # Null}}
    \cup {external.results[i].blockDifference[1] :
            i \in {j \in 1..Len(external.results) : external.results[j].blockDifference # Null}}

\* C3: in every BlockDifference produced exactly one of isBehind, isAhead
\* and isSynced is true.
C3_ExactlyOneFlag ==
  \A d \in Differences :
    Cardinality({f \in {"isBehind", "isAhead", "isSynced"} : d[f]}) = 1

\* C5: the fleet status query answers with a result for every registered
\* endpoint, never with an error.
C5_StatusAnswersEveryEndpoint ==
  (route = "status" /\ response # Null)
    => /\ response[1].status = 200
       /\ DOMAIN response[1].endpoints = EndpointKeys

\* C7: in a fleet-status cycle one block-height call is issued per endpoint,
\* and the blockNumber test of every result is the endpoint's snapshot entry.
C7_OneBlockCallPerEndpoint ==
  route = "status" =>
    \A k \in DOMAIN blockCalls :
      /\ blockCalls[k] = 1
      /\ k \in Done => /\ k \in DOMAIN blockNumbers
                       /\ ResultOf(k).tests["blockNumber"] = blockNumbers[k]

\* C11: in every fleet status response the summary counts as healthy the
\* endpoints whose score is at least 80, as partially healthy those whose
\* score is at least 50 and below 80, as unhealthy those whose score is below
\* 50, and every endpoint is in exactly one of the three.
C11_BucketsByScore ==
  (route = "status" /\ response # Null /\ response[1].status = 200)
    => LET endpoints == response[1].endpoints
           summary == response[1].summary
           HealthyKeys == {k \in DOMAIN endpoints : endpoints[k].health[1].score >= 80}
           PartialKeys == {k \in DOMAIN endpoints :
                             /\ endpoints[k].health[1].score >= 50
                             /\ endpoints[k].health[1].score < 80}
           UnhealthyKeys == {k \in DOMAIN endpoints : endpoints[k].health[1].score < 50}
       IN /\ \A k \in DOMAIN endpoints : endpoints[k].health[1].score # NaN
          /\ summary.healthy = Cardinality(HealthyKeys)
          /\ summary.partiallyHealthy = Cardinality(PartialKeys)
          /\ summary.unhealthy = Cardinality(UnhealthyKeys)
          /\ \A k \in DOMAIN endpoints :
               Cardinality({b \in {HealthyKeys, PartialKeys, UnhealthyKeys} : k \in b}) = 1

\* C11 witness: a fleet status response with an endpoint on each side of the
\* threshold 80 (scores 100 and 75), counted healthy and partially healthy
C11_Witness ==
  /\ route = "status"
  /\ response # Null
  /\ response[1].status = 200
  /\ \E k \in DOMAIN response[1].endpoints : response[1].endpoints[k].health[1].score = 75
  /\ \E k \in DOMAIN response[1].endpoints : response[1].endpoints[k].health[1].score = 100
  /\ response[1].summary.healthy = 1
  /\ response[1].summary.partiallyHealthy = 1

\* C12: makeRpcCall turns every reply into a value, a failure carrying an
\* error message or a success carrying the raw result, and no call of a
\* diagnostic wrapper built on it throws: no testRpcEndpoint invocation is
\* rejected by one of its calls and no call of the snapshot is rejected.
C12_CallsNeverThrow ==
  /\ \A k \in DOMAIN replies : \A c \in DOMAIN replies[k] \ {"system"} :
       LET result == makeRpcCall(replies[k][c]) IN
         IF replies[k][c].http = "ok" /\ replies[k][c].hasResult
         THEN result.success /\ result.result = replies[k][c].result
         ELSE ~result.success /\ "error" \in DOMAIN result
  /\ \A k \in DOMAIN battery : battery[k].pc # "rejected"
  /\ \A k \in DOMAIN blockPromises :
       blockPromises[k] # Null => blockPromises[k][1].status = "fulfilled"
  /\ (route \in {"status", "test"} /\ stage = "batteries") => blockPromises # EmptyObject

\* the calls a running invocation for endpoint k makes besides the
\* block-height call
ExpectedTests(k) ==
  {"chainId", "gasPrice", "syncStatus"}
    \cup (IF Endpoint(k).system_monitor_url # NoKey THEN {"system"} ELSE {})

C14_TimeoutFailsOnlyItsTest ==
  \A k \in Done :
    \A c \in DOMAIN ResultOf(k).tests :
      \/ c = "blockNumber" /\ k \notin EndpointKeys
      \/ /\ k \in DOMAIN replies
         /\ c \in DOMAIN replies[k]
         /\ ResultOf(k).tests[c].success
              = (replies[k][c].http = "ok" /\ replies[k][c].hasResult)
         /\ replies[k][c] = ErrorReply
              => ResultOf(k).tests[c] = [success |-> FALSE, error |-> "error.message"]

\* C14 witness: a result whose chain id call timed out and whose three other
\* tests succeeded
C14_Witness ==
  \E k \in Done :
    /\ k \in DOMAIN replies
    /\ "chainId" \in DOMAIN replies[k]
    /\ replies[k]["chainId"] = ErrorReply
    /\ ~ResultOf(k).tests["chainId"].success
    /\ \A c \in {"blockNumber", "gasPrice", "syncStatus"} : ResultOf(k).tests[c].success

\* C15: the timeout in force for the RPC calls issued for a registered
\* endpoint is the timeout of the endpoint's descriptor.
C15_CallsUseEndpointTimeout ==
  \A k \in EndpointKeys :
    ((k \in DOMAIN blockCalls /\ blockCalls[k] > 0) \/ k \in DOMAIN battery)
      => CallTimeout(Endpoint(k)) = Endpoint(k).timeout

\* C16: in the result of an endpoint with a sidecar URL the resource query is
\* no test: tests holds the four diagnostic outcomes only, totalTests is 4,
\* successfulTests counts the successes among the four, score is their
\* ratio, whether the resource query succeeded or not; system is null when
\* it failed (no answer, or a payload without success) and present when it
\* succeeded.
C16_ResourceQueryNotScored ==
  \A k \in Done :
    Endpoint(k).system_monitor_url # NoKey
      => LET r == ResultOf(k)
             four == {"blockNumber", "chainId", "gasPrice", "syncStatus"}
             successes == Cardinality({t \in four : r.tests[t].success})
         IN /\ DOMAIN r.tests = four
            /\ r.health[1].totalTests = 4
            /\ r.health[1].successfulTests = successes
            /\ r.health[1].score * 4 = successes * 100
            /\ "system" \in DOMAIN replies[k]
            /\ (r.system = Null) <=> (replies[k]["system"] \in {ErrorReply, NoResultReply})

\* C16 witness: an endpoint with a sidecar whose resource query failed and
\* whose four tests succeeded has system null and score 100
C16_Witness ==
  \E k \in Done :
    /\ Endpoint(k).system_monitor_url # NoKey
    /\ replies[k]["system"] \in {ErrorReply, NoResultReply}
    /\ ResultOf(k).system = Null
    /\ ResultOf(k).health[1].score = 100

\* C17: a request of GET /api/test/:endpointKey or GET /api/:endpointKey for
\* a key that is no key of the primary registry is answered 404 "Endpoint
\* not found" at once, and no testRpcEndpoint invocation and no call is
\* started for it.
C17_UnknownKeyNotFound ==
  (route \in {"test", "endpointKey"} /\ endpointKey \notin EndpointKeys)
    => /\ response = Some(ErrorResponse(404, "Endpoint not found"))
       /\ battery = EmptyObject
       /\ blockPromises = EmptyObject
       /\ blockCalls = EmptyObject

\* the ProbeResults of an answered external-fleet probe query, hidden
\* endpoints included
ProbeResults ==
  IF route = "externalRpcs" /\ stage = "responded" THEN EndpointResults(probes) ELSE <<>>

\* C18: in every ProbeResult overallSuccess is true exactly when the rpc
\* outcome and the websocket outcome both succeeded; the entries of the
\* response are the ProbeResults of the visible endpoints.
C18_OverallSuccessIsConjunction ==
  /\ \A i \in DOMAIN ProbeResults :
       /\ ProbeResults[i].overallSuccess
            <=> (ProbeResults[i].rpc.success /\ ProbeResults[i].websocket.success)
       /\ (ProbeResults[i].rpc.success /\ ~ProbeResults[i].websocket.success)
            => ~ProbeResults[i].overallSuccess
  /\ (route = "externalRpcs" /\ response # Null)
       => \A i \in DOMAIN response[1].endpoints :
            response[1].endpoints[i] = ProbeResults[i]

\* C18 witness: the response holds an endpoint reachable by RPC whose
\* WebSocket probe failed
C18_Witness ==
  /\ route = "externalRpcs"
  /\ response # Null
  /\ \E i \in DOMAIN response[1].endpoints :
       /\ response[1].endpoints[i].rpc.success
       /\ ~response[1].endpoints[i].websocket.success
       /\ ~response[1].endpoints[i].overallSuccess

\* C19: the external-fleet probe query answers once every probe has
\* settled, whatever the probes did, and in its ProbeResults a probe that
\* failed catastrophically (the RPC probe on a result that makes parseInt
\* throw, the WebSocket probe on a URL that makes the constructor throw) has
\* the outcome {success: false, error: <message>}, while every other probe
\* has the outcome of its own reply or event.
C19_ProbeFailureContained ==
  route = "externalRpcs"
    => /\ ProbesSettled(probes) => (response # Null /\ response[1].status = 200)
       /\ \A i \in DOMAIN ProbeResults :
            /\ IF probes[i].reply[1] = ResultReply(UnprintableResult)
               THEN ProbeResults[i].rpc = [success |-> FALSE, error |-> "error.message"]
               ELSE ProbeResults[i].rpc.success
                      <=> (probes[i].reply[1].http = "ok" /\ probes[i].reply[1].hasResult)
            /\ IF probes[i].event = "threw"
               THEN ProbeResults[i].websocket = [success |-> FALSE, error |-> "Invalid URL"]
               ELSE ProbeResults[i].websocket.success <=> probes[i].event = "open"

\* C19 witness: an answered query in which the WebSocket probe of one
\* endpoint threw while its RPC probe succeeded and both probes of another
\* endpoint succeeded
C19_Witness ==
  /\ route = "externalRpcs"
  /\ response # Null
  /\ \E i \in DOMAIN ProbeResults : \E j \in DOMAIN ProbeResults \ {i} :
       /\ probes[i].event = "threw"
       /\ ProbeResults[i].rpc.success
       /\ ~ProbeResults[i].websocket.success
       /\ ProbeResults[j].overallSuccess

\* C20: the WebSocket probe of a connection that opened has resolved with
\* success, the probe of a connection that had an error event or ran into
\* the timeout has resolved with failure, and in each of the three cases the
\* probe has closed or terminated the connection.
C20_ProbeClosesConnection ==
  \A i \in DOMAIN probes :
    probes[i].event \in WsEvents
      => /\ probes[i].ws # Null
         /\ probes[i].ws[1].status = "fulfilled"
         /\ probes[i].ws[1].value.success <=> probes[i].event = "open"
         /\ probes[i].action \in {"close", "terminate"}

\* C21: the external-fleet probe query issues both probes of every external
\* endpoint, hidden ones included, and answers when all have settled; its
\* response lists exactly the endpoints whose visibility flag is true, total
\* is their number, working the number of listed entries with overallSuccess
\* true, failed the number of the others, and working + failed = total.
C21_ResponseListsVisible ==
  route = "externalRpcs"
    => /\ DOMAIN probes = 1..Len(EXTERNAL_RPC_ENDPOINTS)
       /\ response # Null
            => LET r == response[1]
                   listed == DOMAIN r.endpoints
               IN /\ \A i \in DOMAIN probes : probes[i].rpc # Null /\ probes[i].ws # Null
                  /\ \A i \in DOMAIN probes :
                       probes[i].reply # Null /\ probes[i].event \in WsEvents \cup {"threw"}
                  /\ listed = {i \in 1..Len(EXTERNAL_RPC_ENDPOINTS) :
                                 EXTERNAL_RPC_ENDPOINTS[i].showInUI}
                  /\ \A i \in listed : r.endpoints[i].name = EXTERNAL_RPC_ENDPOINTS[i].name
                  /\ r.total = Cardinality(listed)
                  /\ r.working = Cardinality({i \in listed : r.endpoints[i].overallSuccess})
                  /\ r.failed = Cardinality({i \in listed : ~r.endpoints[i].overallSuccess})
                  /\ r.working + r.failed = r.total

\* C21 witness: an answered query over a registry with a hidden endpoint
\* whose two probes both succeeded and a visible endpoint that failed
C21_Witness ==
  /\ route = "externalRpcs"
  /\ response # Null
  /\ \E i \in DOMAIN probes :
       /\ ~EXTERNAL_RPC_ENDPOINTS[i].showInUI
       /\ probes[i].rpc[1].value.success
       /\ probes[i].event = "open"
  /\ response[1].total = 1
  /\ response[1].working = 0
  /\ response[1].failed = 1

\* C22: the response of GET /api/external-rpcs lists the external endpoints
\* whose visibility flag is true and no endpoint whose flag is false.
C22_ListHidesHiddenEndpoints ==
  (route = "externalRpcsList" /\ response # Null)
    => LET body == response[1].body IN
         /\ {body[i].name : i \in DOMAIN body}
              = {EXTERNAL_RPC_ENDPOINTS[i].name :
                   i \in {j \in 1..Len(EXTERNAL_RPC_ENDPOINTS) :
                            EXTERNAL_RPC_ENDPOINTS[j].showInUI}}
         /\ \A i \in DOMAIN body : body[i].showInUI

\* the API keys of the configuration, and the URLs that carry one of them
ApiKeys ==
  {environment.external[i].API_KEY : i \in 1..Len(environment.external)} \ {Unset}
KeyBearing(url) == \E j \in 1..Len(url) : url[j] \in ApiKeys

\* the URLs in the response of a query about the external endpoints
SurfaceUrls ==
  IF response = Null THEN {}
  ELSE CASE route = "externalRpcsList" ->
              UNION {{response[1].body[i].rpcUrl, response[1].body[i].wsUrl,
                      response[1].body[i].displayRpcUrl, response[1].body[i].displayWsUrl} :
                       i \in DOMAIN response[1].body}
         [] route = "externalRpcs" ->
              UNION {{response[1].endpoints[i].rpcUrl, response[1].endpoints[i].wsUrl} :
                       i \in DOMAIN response[1].endpoints}
         [] route = "externalStatus" /\ response[1].status = 200 ->
              {response[1].data[i].rpc : i \in DOMAIN response[1].data}
         [] OTHER -> {}

\* C23: the descriptor of an external slot configured with an API key has
\* the key in its RPC URL and in its WebSocket URL and not in its display
\* URLs, and no response of GET /api/external-rpcs, of
\* GET /api/external-rpcs/status or of GET /api/external/status holds a URL
\* that carries a key.
C23_SecretsNeverReachSurface ==
  /\ \A i \in 1..Len(EXTERNAL_RPC_ENDPOINTS) : \A j \in 1..Len(environment.external) :
       (/\ environment.external[j].NAME = EXTERNAL_RPC_ENDPOINTS[i].name
        /\ environment.external[j].API_KEY # Unset)
         => /\ KeyBearing(EXTERNAL_RPC_ENDPOINTS[i].rpcUrl)
            /\ KeyBearing(EXTERNAL_RPC_ENDPOINTS[i].wsUrl)
            /\ ~KeyBearing(EXTERNAL_RPC_ENDPOINTS[i].displayRpcUrl)
            /\ ~KeyBearing(EXTERNAL_RPC_ENDPOINTS[i].displayWsUrl)
  /\ \A url \in SurfaceUrls : ~KeyBearing(url)

\* an external slot with its name and its URL, and the position of the
\* descriptor of slot j among the descriptors resolved from the slots
CompleteExternal(slot) == slot.NAME # Unset /\ slot.URL # <<>>
ExternalPosition(j) ==
  Cardinality({i \in 1..j : CompleteExternal(environment.external[i])})

\* the URL with the key as a query parameter: ?api_key=<key>, or
\* &api_key=<key> after a query string
AsQueryParameter(url, apiKey) ==
  url \o <<IF \E j \in 1..Len(url) : url[j] = "?" THEN "&" ELSE "?", "api_key=", apiKey>>

\* C24: the descriptor resolved from an external slot with an API key has
\* as RPC URL the slot's URL followed by ?api_key=<key>, or by &api_key=<key>
\* when the URL has a query string, and the WebSocket URL likewise.
C24_KeyAppendedAsQueryParameter ==
  route # "starting"
    => \A j \in 1..Len(environment.external) :
         LET slot == environment.external[j] IN
           (CompleteExternal(slot) /\ slot.API_KEY # Unset)
             => LET d == EXTERNAL_RPC_ENDPOINTS[ExternalPosition(j)] IN
                  /\ d.rpcUrl = AsQueryParameter(slot.URL, slot.API_KEY)
                  /\ d.wsUrl = AsQueryParameter(DerivedWsUrl(slot), slot.API_KEY)

\* a primary slot with its name and its URL, the identity key it resolves
\* to, and whether the registries hold a descriptor made from slot j
CompletePrimary(slot) == slot.NAME # Unset /\ slot.URL # Unset
PrimaryKey(j) ==
  IF environment.primary[j].KEY # Unset THEN environment.primary[j].KEY ELSE DefaultKey(j)
IncludedPrimary(j) ==
  \E i \in 1..Len(RPC_ENDPOINTS) :
    /\ RPC_ENDPOINTS[i].key = PrimaryKey(j)
    /\ RPC_ENDPOINTS[i].name = environment.primary[j].NAME
    /\ RPC_ENDPOINTS[i].url = environment.primary[j].URL
IncludedExternal(j) ==
  \E i \in 1..Len(EXTERNAL_RPC_ENDPOINTS) :
    /\ EXTERNAL_RPC_ENDPOINTS[i].name = environment.external[j].NAME
    /\ EXTERNAL_RPC_ENDPOINTS[i].displayRpcUrl = environment.external[j].URL

\* a later complete primary slot resolves to the identity key of slot j
Replaced(j) ==
  \E l \in (j + 1)..Len(environment.primary) :
    CompletePrimary(environment.primary[l]) /\ PrimaryKey(l) = PrimaryKey(j)

\* in the descriptors made from the slots, every absent optional field has
\* its default: timeout 10000, expected chain id '998', identity key
\* rpc_{N}, compareWith and sidecar URL null, visibility true
DefaultsApplied ==
  /\ \A j \in 1..Len(environment.primary) : \A i \in 1..Len(RPC_ENDPOINTS) :
       LET slot == environment.primary[j]
           d == RPC_ENDPOINTS[i]
       IN (CompletePrimary(slot) /\ d.key = PrimaryKey(j) /\ d.name = slot.NAME)
            => /\ slot.TIMEOUT = 0 => d.timeout = 10000
               /\ slot.CHAIN_ID = Unset => d.expected_chain_id = "998"
               /\ slot.KEY = Unset => d.key = DefaultKey(j)
               /\ slot.COMPARE_WITH = Unset => d.compare_with = NoKey
               /\ slot.SYSTEM_URL = Unset => d.system_monitor_url = NoKey
  /\ \A j \in 1..Len(environment.external) :
       LET slot == environment.external[j] IN
         (CompleteExternal(slot) /\ slot.SHOW_IN_UI = Unset)
           => EXTERNAL_RPC_ENDPOINTS[ExternalPosition(j)].showInUI

CompleteExternals ==
  {j \in 1..Len(environment.external) : CompleteExternal(environment.external[j])}

\* C26: after resolution the external registry holds at least one endpoint,
\* whatever the configuration: the two endpoints of the built-in list when
\* no external slot has both name and URL, and otherwise one endpoint per
\* such slot, in the order of the slots, and nothing of the built-in list.
C26_ExternalNeverEmpty ==
  route # "starting"
    => /\ Len(EXTERNAL_RPC_ENDPOINTS) >= 1
       /\ IF CompleteExternals = {}
          THEN /\ [i \in 1..Len(EXTERNAL_RPC_ENDPOINTS) |-> EXTERNAL_RPC_ENDPOINTS[i].name]
                    = <<"Proxy RPC 1", "HyperLiquid Testnet">>
               /\ EXTERNAL_RPC_ENDPOINTS[1].rpcUrl = <<"http://", "18.142.83.122:9090">>
               /\ EXTERNAL_RPC_ENDPOINTS[2].rpcUrl
                    = <<"https://", "rpc.hyperliquid-testnet.xyz/evm">>
          ELSE /\ Len(EXTERNAL_RPC_ENDPOINTS) = Cardinality(CompleteExternals)
               /\ \A j \in CompleteExternals :
                    EXTERNAL_RPC_ENDPOINTS[ExternalPosition(j)].name
                      = environment.external[j].NAME

\* C26 witness: resolved from external slots of which one has a name and no
\* URL and the other nothing, the registry holds the built-in list
C26_Witness ==
  /\ route # "starting"
  /\ Len(environment.external) = 2
  /\ environment.external[1].NAME # Unset
  /\ CompleteExternals = {}
  /\ Len(EXTERNAL_RPC_ENDPOINTS) = 2
  /\ EXTERNAL_RPC_ENDPOINTS[1].name = "Proxy RPC 1"

\* the height the reference endpoint reported to the query in progress:
\* the number in its reply to eth_blockNumber, null when there is no
\* reference, no reply yet, an error, no result or a result without a digit
ReferenceHeight ==
  IF ReferenceIndexes = {} THEN Null
  ELSE LET k == FirstReference.key IN
         IF k \in DOMAIN replies /\ "blockNumber" \in DOMAIN replies[k]
         THEN LET reply == replies[k]["blockNumber"] IN
                IF /\ reply.http = "ok"
                   /\ reply.hasResult
                   /\ reply.result.t = "string"
                   /\ reply.result.d # <<>>
                THEN Some(HexPrefixValue(reply.result.d, 0))
                ELSE Null
         ELSE Null

\* C27: the reference-relative external status query requests the height of
\* an external endpoint, holds a per-external result or answers 200 only
\* when a primary endpoint is flagged as reference and that endpoint reported
\* its height; when no endpoint is flagged or the height was not obtained,
\* its answer is an error without any per-external result, and no request to
\* an external endpoint was made.
C27_FailsAsAWhole ==
  route = "externalStatus"
    => /\ (\/ stage = "externals"
           \/ external.results # <<>>
           \/ (response # Null /\ response[1].status = 200))
            => /\ ReferenceIndexes # {}
               /\ ReferenceHeight # Null
               /\ external.referenceBlock = ReferenceHeight
       /\ (stage = "responded" /\ (ReferenceIndexes = {} \/ ReferenceHeight = Null))
            => /\ response # Null
               /\ response[1].status = 500
               /\ "data" \notin DOMAIN response[1]
               /\ external.results = <<>>
       /\ ReferenceIndexes = {}
            => /\ response = Some(ErrorResponse(500, "No reference RPC found"))
               /\ battery = EmptyObject

\* C27 witness: the reference answered every test and its height reads "0x",
\* which is no number: the query has answered with an error
C27_Witness ==
  /\ route = "externalStatus"
  /\ stage = "responded"
  /\ ReferenceIndexes # {}
  /\ FirstReference.key \in Done
  /\ replies[FirstReference.key]["blockNumber"] = ResultReply(StrResult(<<>>))
  /\ response = Some(ErrorResponse(500, "Reference RPC block unavailable"))
  /\ external.results = <<>>

\* C28: in the reference-relative external status query every entry is the
\* one its own endpoint's reply determines: entry i is that of the i-th
\* external endpoint of the registry; when the reply carried a height, its
\* difference is referenceBlock - currentBlock and isHealthy is true exactly
\* when the difference is between -5 and 5; when the call failed (an error,
\* no result, a null result), blockDifference is null and isHealthy false;
\* a result that is no number is never healthy.  A successful query answers
\* with one entry per external endpoint.
C28_EntryPerExternalEndpoint ==
  route = "externalStatus"
    => /\ Len(external.results) = Len(external.replies)
       /\ \A i \in 1..Len(external.results) :
            LET entry == external.results[i]
                reply == external.replies[i]
                ref == external.referenceBlock[1]
            IN /\ entry.rpcName = EXTERNAL_RPC_ENDPOINTS[i].name
               /\ entry.rpc = EXTERNAL_RPC_ENDPOINTS[i].displayRpcUrl
               /\ IF /\ reply.http = "ok"
                     /\ reply.hasResult
                     /\ reply.result.t = "string"
                     /\ reply.result.d # <<>>
                  THEN LET cur == HexPrefixValue(reply.result.d, 0) IN
                         /\ entry.blockDifference # Null
                         /\ entry.blockDifference[1].referenceBlock = ref
                         /\ entry.blockDifference[1].currentBlock = cur
                         /\ entry.blockDifference[1].difference = ref - cur
                         /\ entry.blockNumber = Some(cur)
                         /\ entry.isHealthy <=> (ref - cur <= 5 /\ cur - ref <= 5)
                  ELSE /\ ~entry.isHealthy
                       /\ (reply.http = "error" \/ ~reply.hasResult \/ reply.result.t = "null")
                            => entry.blockDifference = Null /\ entry.blockNumber = Null
       /\ (response # Null /\ response[1].status = 200)
            => /\ response[1].data = external.results
               /\ Len(response[1].data) = Len(EXTERNAL_RPC_ENDPOINTS)
               /\ response[1].referenceRpc.blockNumber = external.referenceBlock[1]

\* C28 witness: a successful query in which the call to one external
\* endpoint failed and another endpoint is 5 blocks ahead of the reference,
\* and healthy
C28_Witness ==
  /\ route = "externalStatus"
  /\ response # Null
  /\ response[1].status = 200
  /\ \E i \in DOMAIN response[1].data : \E j \in DOMAIN response[1].data :
       /\ i < j
       /\ external.replies[i] = ErrorReply
       /\ response[1].data[i].blockDifference = Null
       /\ response[1].data[j].blockDifference # Null
       /\ response[1].data[j].blockDifference[1].difference = -5
       /\ response[1].data[j].isHealthy

\* the number an expected chain id denotes
ChainIdOf(text) ==
  CASE text = "998" -> 998
    [] text = "1" -> 1
    [] OTHER -> NaN

\* C29: in every result a chainId test that counts as successful reports
\* the chain id the endpoint is expected to have.
C29_ChainIdVerified ==
  \A k \in Done :
    ResultOf(k).tests["chainId"].success
      => JsStrictEq(ResultOf(k).tests["chainId"].chainId,
                    ChainIdOf(Endpoint(k).expected_chain_id))

\* C30: when no primary slot RPC_{N}_* has both name and URL and
\* HYPERLIQUID_MAIN_URL, LOCAL_NODE_URL and ARCHIVE_NODE_URL are set, the
\* primary registry resolved at the start is not empty: it holds the
\* endpoints hyperliquid_main, local_node and archive_node with these URLs.
C30_FallsBackToLegacy ==
  (/\ route # "starting"
   /\ \A j \in 1..Len(environment.primary) : ~CompletePrimary(environment.primary[j])
   /\ environment.legacy = LegacySet)
    => /\ RPC_ENDPOINTS # <<>>
       /\ RPC_ENDPOINTS = LegacyRpcEndpoints(environment.legacy)

\* C31: when RPC_{N}_DISPLAY_URL is set for the slot an endpoint of the
\* primary registry was resolved from, every response that shows the
\* endpoint's URL (the url of its result, the endpoint list, the referenceRpc
\* of the reference-relative query) shows the display URL.
C31_DisplayUrlShown ==
  \A j \in 1..Len(environment.primary) :
    LET slot == environment.primary[j]
        k == PrimaryKey(j)
    IN (/\ CompletePrimary(slot) /\ ~Replaced(j) /\ slot.DISPLAY_URL # Unset
        /\ response # Null /\ response[1].status = 200)
         => /\ route = "status" => response[1].endpoints[k].url = slot.DISPLAY_URL
            /\ (route \in {"test", "endpointKey"} /\ endpointKey = k)
                 => response[1].result.url = slot.DISPLAY_URL
            /\ route = "endpoints"
                 => \A i \in 1..Len(response[1].body) :
                      response[1].body[i].key = k
                        => response[1].body[i].url = slot.DISPLAY_URL
            /\ (route = "externalStatus" /\ FirstReference.key = k)
                 => response[1].referenceRpc.url = slot.DISPLAY_URL

\* the result testRpcEndpoint returns for endpoint k as the replies to its
\* calls determine it, whatever the order in which they arrived
ResultFromReplies(k) ==
  LET endpoint == Endpoint(k)
      outcome(c) ==
        IF c = "blockNumber"
        THEN IF k \in EndpointKeys THEN getBlockNumber(replies[k][c]).value
             ELSE InheritedOutcome
        ELSE Wrapper(c, replies[k][c]).value
      tests == [c \in {"blockNumber", "chainId", "gasPrice", "syncStatus"} |-> outcome(c)]
  IN [name |-> endpoint.name,
      url |-> endpoint.url,
      tests |-> tests,
      blockDifference |-> ComputeBlockDifference(endpoint, blockNumbers, tests),
      system |-> IF endpoint.system_monitor_url # NoKey THEN outcome("system") ELSE Null,
      health |-> Some(Health(tests))]

\* C32: an invocation of testRpcEndpoint has a health score only when every
\* one of its calls (block number, chain id, gas price, sync status and, with
\* a sidecar URL, the resource query) has completed, and the result it
\* returns is the one the replies to these calls determine, in whatever order
\* the calls completed.
C32_ResultIndependentOfOrder ==
  \A k \in DOMAIN battery :
    LET b == battery[k] IN
    /\ b.results.health # Null
         => /\ b.pc = "done"
            /\ "blockNumber" \in DOMAIN b.results.tests
            /\ \A c \in ExpectedTests(k) :
                 c \in DOMAIN b.promises /\ b.promises[c] # Null
    /\ b.pc = "done" => b.results = ResultFromReplies(k)

\* C32 witness: the fleet status has the result of an endpoint with a sidecar
\* whose five calls completed, the gas price call with a failure and the
\* resource query with a payload, and whose block difference was computed
C32_Witness ==
  /\ route = "status"
  /\ \E k \in Done :
       /\ Endpoint(k).system_monitor_url # NoKey
       /\ \A c \in ExpectedTests(k) : battery[k].promises[c] # Null
       /\ replies[k]["gasPrice"] = ErrorReply
       /\ replies[k]["system"] = ResultReply(ObjectResult)
       /\ ResultOf(k).system # Null
       /\ ResultOf(k).blockDifference # Null
       /\ ResultOf(k).health[1].score = 75
       /\ ResultOf(k) = ResultFromReplies(k)

\* C33: in whatever order the block-height calls of the snapshot and the
\* calls of the invocations complete, the snapshot holds under each key the
\* outcome of the call made to that endpoint, and the fleet status response
\* holds under each key of the registry the result the replies of that
\* endpoint determine, with the summary computed from these results.
C33_AggregationIndependentOfOrder ==
  /\ (route \in {"status", "test"} /\ stage \in {"batteries", "responded"})
       => \A k \in DOMAIN blockNumbers :
            /\ k \in EndpointKeys
            /\ k \in DOMAIN replies
                 => blockNumbers[k] = getBlockNumber(replies[k]["blockNumber"]).value
            /\ k \notin DOMAIN replies
                 => k \in DOMAIN battery /\ battery[k].pc = "rejected"
  /\ (route = "status" /\ response # Null /\ response[1].status = 200)
       => /\ DOMAIN response[1].endpoints = EndpointKeys
          /\ \A k \in EndpointKeys : response[1].endpoints[k] = ResultFromReplies(k)
          /\ response[1].summary = Summary([k \in EndpointKeys |-> ResultFromReplies(k)])

\* C33 witness: a fleet status response over a snapshot in which the two
\* endpoints reported different heights, one endpoint healthy and the other
\* not
C33_Witness ==
  /\ route = "status"
  /\ response # Null
  /\ response[1].status = 200
  /\ \E k, j \in EndpointKeys :
       /\ k # j
       /\ k \in DOMAIN blockNumbers /\ j \in DOMAIN blockNumbers
       /\ blockNumbers[k].success /\ blockNumbers[j].success
       /\ blockNumbers[k].block = 1
       /\ blockNumbers[j].block = 0
       /\ response[1].endpoints[k].tests["blockNumber"].block = 1
       /\ response[1].endpoints[j].tests["blockNumber"].block = 0
       /\ response[1].endpoints[k].health[1].score = 100
       /\ response[1].endpoints[j].health[1].score = 25
  /\ response[1].summary.healthy = 1
  /\ response[1].summary.unhealthy = 1

\* the result the second request's invocation returns as the replies to its
\* own calls determine it: the single-endpoint query reports no difference
ConcurrentResultFromReplies ==
  LET endpoint == Endpoint(concurrent.key)
      outcome(c) ==
        IF c = "blockNumber" THEN getBlockNumber(concurrent.replies[c]).value
        ELSE Wrapper(c, concurrent.replies[c]).value
      tests == [c \in {"blockNumber", "chainId", "gasPrice", "syncStatus"} |-> outcome(c)]
  IN [name |-> endpoint.name,
      url |-> endpoint.url,
      tests |-> tests,
      blockDifference |-> Null,
      system |-> IF endpoint.system_monitor_url # NoKey THEN outcome("system") ELSE Null,
      health |-> Some(Health(tests))]

\* C34: whatever queries have been served and whichever two are in flight,
\* the primary and the external registry are the values resolved from the
\* environment; when no request is being served nothing remains of the
\* earlier ones; and the result of each of two requests in flight at once is
\* the one the replies to its own calls determine.
C34_RegistriesReadOnly ==
  /\ Resolved
  /\ route = "idle" => Idle
  /\ (route = "status" /\ response # Null /\ response[1].status = 200)
       => \A k \in EndpointKeys : response[1].endpoints[k] = ResultFromReplies(k)
  /\ (route \in {"test", "endpointKey"} /\ response # Null /\ response[1].status = 200)
       => response[1].result = ResultFromReplies(endpointKey)
  /\ (concurrent.response # Null /\ concurrent.response[1].status = 200)
       => /\ {"blockNumber", "chainId", "gasPrice", "syncStatus"}
               \subseteq DOMAIN concurrent.replies
          /\ concurrent.response[1].result = ConcurrentResultFromReplies
  /\ concurrent.battery = Null
       => concurrent.response = Null \/ concurrent.response[1].status = 404

\* C34 witness: the fleet status and a single-endpoint query for the same
\* endpoint were in flight together and have both answered; the snapshot of
\* the first holds the endpoint's height and a difference was computed from
\* it, the second's own call for the height failed, and the registries are
\* as resolved
C34_Witness ==
  /\ Resolved
  /\ route = "status"
  /\ response # Null
  /\ response[1].status = 200
  /\ concurrent.key \in EndpointKeys
  /\ concurrent.response # Null
  /\ concurrent.response[1].status = 200
  /\ response[1].endpoints[concurrent.key].tests["blockNumber"].success
  /\ ~concurrent.response[1].result.tests["blockNumber"].success
  /\ \E k \in EndpointKeys : response[1].endpoints[k].blockDifference # Null
  /\ concurrent.response[1].result.blockDifference = Null

\* C35: in every fleet status response summary.overallHealth is the number
\* healthy / total * 100, between 0 and 100, also when the primary registry
\* has no endpoint.
C35_OverallHealthIsPercentage ==
  (route = "status" /\ response # Null /\ response[1].status = 200)
    => LET summary == response[1].summary IN
       /\ summary.overallHealth = <<summary.healthy * 100, summary.total>>
       /\ summary.total # 0
       /\ 0 <= summary.healthy * 100
       /\ summary.healthy * 100 <= 100 * summary.total

\* C36: a WebSocket probe calls resolve at most once, and its outcome is
\* the one of the first of open, error and timeout to happen: an event that
\* arrives afterwards leaves the outcome, and what was done to the
\* connection, as they were; the timer, once cleared, does not fire.
C36_ProbeResolvesOnce ==
  \A i \in 1..Len(probes) :
    LET p == probes[i] IN
    /\ p.resolves <= 1
    /\ p.event \in WsEvents
         => /\ p.resolves = 1
            /\ p.ws = Some(Fulfilled(WsOutcome(p.event)))
            /\ p.action = WsAction(p.event)
            /\ p.event \notin p.late
            /\ "timeout" \notin p.late
    /\ p.event \notin WsEvents => p.late = {}
    /\ (response # Null /\ i \in Visible)
         => response[1].endpoints[i].websocket = SettledOutcome(p.ws[1], "WebSocket test failed")

\* C36 witness: a probe resolved by its timeout, which terminated the
\* socket, has since received both an error and an open, and another probe
\* resolved by open has since received an error
C36_Witness ==
  \E i, j \in 1..Len(probes) :
    /\ probes[i].event = "timeout"
    /\ probes[i].late = {"open", "error"}
    /\ probes[i].ws = Some(Fulfilled(WsOutcome("timeout")))
    /\ probes[i].action = "terminate"
    /\ probes[j].event = "open"
    /\ probes[j].late = {"error"}
    /\ probes[j].ws = Some(Fulfilled(WsOutcome("open")))
    /\ probes[j].timer = "cleared"

\* C37: every external probe query eventually answers: a WebSocket probe
\* whose connection emits neither open nor error is resolved by its timer,
\* with the failure 'WebSocket connection timeout'.
C37_ProbeEventuallyResolves ==
  /\ [](\A i \in 1..Len(probes) :
          probes[i].event = "timeout"
            => probes[i].ws = Some(Fulfilled([success |-> FALSE,
                                              error |-> "WebSocket connection timeout"])))
  /\ (route = "externalRpcs" /\ stage = "probes")
       ~> (route = "externalRpcs" /\ stage = "responded")

\* C37 witness: the query has answered after the connections of all its
\* probes stayed silent: each probe was resolved by its timer and no event
\* of the socket has arrived
C37_Witness ==
  /\ route = "externalRpcs"
  /\ stage = "responded"
  /\ response # Null
  /\ probes # <<>>
  /\ \A i \in 1..Len(probes) :
       /\ probes[i].event = "timeout"
       /\ probes[i].timer = "fired"
       /\ probes[i].late = {}
  /\ \A i \in Visible :
       response[1].endpoints[i].websocket
         = [success |-> FALSE, error |-> "WebSocket connection timeout"]

\* C38: two distinct primary slots that both have a name and a URL resolve
\* to different identity keys, so that the primary registry holds one entry
\* per such slot, the entry made from it.
C38_IdentityKeysUnique ==
  route # "starting"
    => LET complete == {j \in 1..Len(environment.primary) :
                          CompletePrimary(environment.primary[j])}
       IN /\ \A i, j \in complete : i # j => PrimaryKey(i) # PrimaryKey(j)
          /\ Len(RPC_ENDPOINTS) = Cardinality(complete)
          /\ \A j \in complete : IncludedPrimary(j)

\* the heights reported as obtained: the entries of the snapshot, the
\* blockNumber tests of the invocations, and the RPC probes of the external
\* endpoints
IsHeight(x) == x # NaN /\ x \in Int /\ x >= 0

\* C39: every block-height outcome with success = true carries an integer
\* height, whatever the endpoint put in the result field of its response:
\* in the snapshot, in the blockNumber test of every invocation and in the
\* RPC probe of every external endpoint.
C39_SuccessCarriesIntegerHeight ==
  /\ \A k \in DOMAIN blockNumbers :
       blockNumbers[k].success => IsHeight(blockNumbers[k].block)
  /\ \A k \in DOMAIN battery :
       ("blockNumber" \in DOMAIN battery[k].results.tests
          /\ battery[k].results.tests["blockNumber"].success)
         => IsHeight(battery[k].results.tests["blockNumber"].block)
  /\ \A i \in 1..Len(probes) :
       (probes[i].rpc # Null /\ SettledOutcome(probes[i].rpc[1], "RPC test failed").success)
         => IsHeight(SettledOutcome(probes[i].rpc[1], "RPC test failed").blockNumber)

\* C40: for every identity key K of the primary registry, whatever string K
\* is, the request GET /api/K is served by the handler of /api/:endpointKey
\* with K as its parameter, and what it answers with status 200 is the
\* EndpointResult of K's endpoint; and the reference-relative query, once it
\* has looked its reference up by key, holds the testRpcEndpoint invocation
\* of the reference.
C40_KeyQueryAnsweredByBattery ==
  /\ \A k \in EndpointKeys :
       path = ApiPath(k)
         => /\ route = "endpointKey"
            /\ endpointKey = k
            /\ (stage = "responded" /\ response[1].status = 200)
                 => /\ k \in Done
                    /\ response[1] = ResultResponse(ResultOf(k))
                    /\ ResultOf(k).name = Endpoint(k).name
  /\ (path = <<"api", "external", "status">> /\ ReferenceIndexes # {})
       => FirstReference.key \in DOMAIN battery

====
